---- MODULE Spec2Model ----
(***************************************************************************)
(* Model of the pattern-based analysis pipeline and its resilient remote   *)
(* access layer: the scorer (CodeAnalyzer.calculateScores), the TTL cache  *)
(* (MemoryCache), the retry handler (ErrorHandler.handleWithRetry), the    *)
(* remote client (GitHubService: its three cached calls, listReactFiles,   *)
(* verifyRepository), the batch scheduler (CodeAnalyzer.analyzeFiles), the *)
(* analysis of one file (CodeAnalyzer.analyzeFile), the repository         *)
(* analysis tool (analizarRepositorio) with the report it builds, the      *)
(* validation of tool arguments and of the configuration, and the opening  *)
(* of the tool handlers.                                                   *)
(*                                                                         *)
(* Each component has its own specification (SpecScores, SpecCache,        *)
(* SpecRetry, SpecService, SpecBatch, SpecRepo, SpecAnalyze, SpecReport,   *)
(* SpecList, SpecValidate, SpecConfig, SpecTools, SpecConcurrent,          *)
(* SpecVerify); the variables of the other components stay at their        *)
(* initial value under it. SpecOrder runs either analyzeFiles or           *)
(* analizarRepositorio.                                                    *)
(***************************************************************************)
EXTENDS Integers, Sequences, FiniteSets, TLC

VARIABLES
    issues,     \* scorer: the issue list handed to calculateScores
    scores,     \* scorer: the returned {architecture, cleanCode}, or NoScores
    now,        \* Date.now(), in clock ticks
    cache,      \* MemoryCache.cache: key -> CacheEntry, NoEntry when absent
    lastGet,    \* cache: the last get(key) and what it returned
    lastSet,    \* cache: per key, the last set() not followed by delete/clear
    rc,         \* handleWithRetry: its arguments, loop counter, lastError, outcome
    svc,        \* GitHubService: octokit set or null, and its config
    call,       \* per caller, the GitHubService call it is in
    af,         \* analyzeFiles: the loop index, each file's promise, the results
    repo,       \* analizarRepositorio: its position and each file's operation
    fa,         \* analyzeFile: what the rules find in the content, and the result
    rep,        \* analizarRepositorio: the analysis results and the report built
    lr,         \* listReactFiles: the scanDirectory calls in progress and allFiles
    vt,         \* validateToolArguments: the tool name, the arguments, the result
    cf,         \* validateConfig: the configuration and what validateConfig says of it
    th,         \* tool handler: the tool, its arguments, how far it got, its error
    ver         \* verifyRepository: its position, what it returned or raised

scoreVars == <<issues, scores>>
cacheVars == <<now, cache, lastGet, lastSet>>
svcVars == <<svc, call>>
notScores == <<cacheVars, rc, svcVars, af, repo, fa, rep, lr, vt, cf, th, ver>>
notCache == <<scoreVars, rc, svcVars, af, repo, fa, rep, lr, vt, cf, th, ver>>
notRetry == <<scoreVars, cacheVars, svcVars, af, repo, fa, rep, lr, vt, cf, th, ver>>
notService == <<scoreVars, lastGet, lastSet, rc, af, repo, fa, rep, lr, vt, cf, th, ver>>
notBatch == <<scoreVars, cacheVars, rc, svcVars, repo, fa, rep, lr, vt, cf, th, ver>>
notRepo == <<scoreVars, cacheVars, rc, svcVars, af, fa, rep, lr, vt, cf, th, ver>>
notAnalyze == <<scoreVars, cacheVars, rc, svcVars, af, repo, rep, lr, vt, cf, th, ver>>
notReport == <<scoreVars, cacheVars, rc, svcVars, af, repo, fa, lr, vt, cf, th, ver>>
notList == <<scoreVars, cacheVars, rc, svcVars, af, repo, fa, rep, vt, cf, th, ver>>
notValidate == <<scoreVars, cacheVars, rc, svcVars, af, repo, fa, rep, lr, cf, th, ver>>
notConfig == <<scoreVars, cacheVars, rc, svcVars, af, repo, fa, rep, lr, vt, th, ver>>
notToolService == <<scoreVars, cacheVars, rc, af, repo, fa, rep, lr, vt, cf, ver>>
notVerifyService == <<scoreVars, cacheVars, rc, af, repo, fa, rep, lr, vt, cf, th>>
vars ==
    <<issues, scores, now, cache, lastGet, lastSet, rc, svc, call, af, repo, fa, rep,
      lr, vt, cf, th, ver>>

Max(a, b) == IF a >= b THEN a ELSE b
Min(a, b) == IF a <= b THEN a ELSE b

(***************************************************************************)
(* Scorer                                                                  *)
(***************************************************************************)
MaxIssues == 2
MaxOcc == 2
ManyOcc == 50

Severities == {"critical", "high", "medium", "low", "good", "info"}

\* occurrences = matches.length of a matching rule: an integer >= 1
Occurrences == (1..MaxOcc) \cup {ManyOcc}

AnalysisIssue == [severity : Severities, occurrences : Occurrences]

IssueLists == UNION {[1..n -> AnalysisIssue] : n \in 0..MaxIssues}

NoScores == [architecture |-> -1, cleanCode |-> -1]

severityWeights ==
    [critical |-> 25, high |-> 15, medium |-> 8, low |-> 3, good |-> -5, info |-> 0]

RECURSIVE totalPenalty(_)
totalPenalty(is) ==
    IF Len(is) = 0 THEN 0
    ELSE totalPenalty(SubSeq(is, 1, Len(is) - 1))
         + severityWeights[is[Len(is)].severity] * is[Len(is)].occurrences

\* Math.round of the rational num/den (den > 0): the nearest integer, halves up
MathRound(num, den) == (2 * num + den) \div (2 * den)

\* Math.max(0, Math.min(100, x)) on x = num/den, kept as a numerator over den
Clamp(num, den) == Max(0, Min(100 * den, num))

\* the mutant of calculateScores: the upper clamp Math.min(100, ...) is missing
calculateScoresNoCeil(is) ==
    IF Len(is) = 0 THEN [architecture |-> 100, cleanCode |-> 100]
    ELSE [architecture |-> MathRound(Max(0, 100 - totalPenalty(is)), 1),
          cleanCode |-> MathRound(Max(0, 500 - 4 * totalPenalty(is)), 5)]

\* the mutant of calculateScores: the distance to 100 is taken in place of the
\* lower clamp
calculateScoresAbs(is) ==
    IF Len(is) = 0 THEN [architecture |-> 100, cleanCode |-> 100]
    ELSE [architecture |->
              MathRound(Min(100, Max(100 - totalPenalty(is), totalPenalty(is) - 100)), 1),
          cleanCode |->
              MathRound(Min(500, Max(500 - 4 * totalPenalty(is),
                                     4 * totalPenalty(is) - 500)), 5)]

\* the mutant of calculateScores: the lower clamp Math.max(0, ...) is missing
calculateScoresNoFloor(is) ==
    IF Len(is) = 0 THEN [architecture |-> 100, cleanCode |-> 100]
    ELSE [architecture |-> MathRound(Min(100, 100 - totalPenalty(is)), 1),
          cleanCode |-> MathRound(Min(500, 500 - 4 * totalPenalty(is)), 5)]

\* totalPenalty * 0.8 is the rational 4 * totalPenalty / 5; its fractional part
\* is a multiple of 0.2, so the floating-point product rounds like the rational
calculateScores(is) ==
    IF Len(is) = 0 THEN [architecture |-> 100, cleanCode |-> 100]
    ELSE [architecture |-> MathRound(Clamp(100 - totalPenalty(is), 1), 1),
          cleanCode |-> MathRound(Clamp(500 - 4 * totalPenalty(is), 5), 5)]

ScoresInit ==
    /\ issues \in IssueLists
    /\ scores = NoScores

ScoresIdle ==
    /\ issues = <<>>
    /\ scores = NoScores

CalculateScores ==
    /\ scores = NoScores
    /\ scores' = calculateScores(issues)
    /\ UNCHANGED <<issues, notScores>>

(***************************************************************************)
(* MemoryCache                                                             *)
(***************************************************************************)
MaxTime == 2
MaxTtl == 1

Keys == {"repo-info:o/r", "files:o/r/main:", "file:o/r/main:a.ts"}
Values == {"v1", "v2"}
Ttls == 0..MaxTtl

NoEntry == [data |-> "none", timestamp |-> -1, ttl |-> -1]
NoGet == [key |-> "none", result |-> "none", at |-> -1]

\* the mutant of Expired: the sweep and the read use >= instead of >
ExpiredAtTtl(entry, t) == t - entry.timestamp >= entry.ttl

\* Date.now() - entry.timestamp > entry.ttl
Expired(entry, t) == t - entry.timestamp > entry.ttl

\* the key's entry after get(key): an expired entry is deleted by the read
CacheAfterGet(c, key, t) ==
    IF c[key] # NoEntry /\ Expired(c[key], t) THEN [c EXCEPT ![key] = NoEntry] ELSE c

\* what get(key) returns: "null" for a miss
CacheGetResult(c, key, t) ==
    IF c[key] = NoEntry THEN "null"
    ELSE IF Expired(c[key], t) THEN "null"
    ELSE c[key].data

\* the map after set(key, data, ttl)
CacheAfterSet(c, key, data, ttl, t) ==
    [c EXCEPT ![key] = [data |-> data, timestamp |-> t, ttl |-> ttl]]

\* the map after cleanup(): every expired key is collected, then deleted
CacheAfterCleanup(c, t) ==
    [k \in Keys |-> IF c[k] # NoEntry /\ Expired(c[k], t) THEN NoEntry ELSE c[k]]

CacheInit ==
    /\ now = 0
    /\ cache = [k \in Keys |-> NoEntry]
    /\ lastGet = NoGet
    /\ lastSet = [k \in Keys |-> NoEntry]

CacheSet(key, data, ttl) ==
    /\ cache' = CacheAfterSet(cache, key, data, ttl, now)
    /\ lastSet' = [lastSet EXCEPT ![key] = [data |-> data, timestamp |-> now, ttl |-> ttl]]
    /\ lastGet' = NoGet
    /\ UNCHANGED <<now, notCache>>

CacheGet(key) ==
    /\ lastGet' = [key |-> key, result |-> CacheGetResult(cache, key, now), at |-> now]
    /\ cache' = CacheAfterGet(cache, key, now)
    /\ UNCHANGED <<now, lastSet, notCache>>

CacheDelete(key) ==
    /\ cache' = [cache EXCEPT ![key] = NoEntry]
    /\ lastSet' = [lastSet EXCEPT ![key] = NoEntry]
    /\ lastGet' = NoGet
    /\ UNCHANGED <<now, notCache>>

CacheClear ==
    /\ cache' = [k \in Keys |-> NoEntry]
    /\ lastSet' = [k \in Keys |-> NoEntry]
    /\ lastGet' = NoGet
    /\ UNCHANGED <<now, notCache>>

\* the setInterval callback of the constructor
Cleanup ==
    /\ cache' = CacheAfterCleanup(cache, now)
    /\ lastGet' = NoGet
    /\ UNCHANGED <<now, lastSet, notCache>>

Tick ==
    /\ now < MaxTime
    /\ now' = now + 1
    /\ lastGet' = NoGet
    /\ UNCHANGED <<cache, lastSet, notCache>>

(***************************************************************************)
(* Errors and ErrorHandler.handleWithRetry                                 *)
(***************************************************************************)
MaxRetryCount == 3
MaxDelay == 30000
DefaultRetryDelay == 1000

\* HTTP statuses of a failed host request; NoStatus is statusCode undefined
NoStatus == 0
Statuses == {401, 403, 404, 429, 500, 503}

\* what error.message contains, as far as isRetryable looks at it
NetworkMessages == {"ECONNRESET", "ETIMEDOUT", "ENOTFOUND"}
Messages == NetworkMessages \cup {"other"}

Contexts == {"getRepository(o/r)", "listFiles(o/r:)", "getFileContent(o/r:a.ts)"}
NoContext == "none"

NoError ==
    [cls |-> "none", code |-> "none", statusCode |-> NoStatus, retryable |-> FALSE,
     message |-> "none", context |-> NoContext]

\* new MCPServerError(message, code, details, retryable)
MCPServerError(message, code, retryable, context) ==
    [cls |-> "MCPServerError", code |-> code, statusCode |-> NoStatus,
     retryable |-> retryable, message |-> message, context |-> context]

ValidationError(message) ==
    [cls |-> "ValidationError", code |-> "VALIDATION_ERROR", statusCode |-> NoStatus,
     retryable |-> FALSE, message |-> message, context |-> NoContext]

\* retryable = statusCode ? statusCode >= 500 || statusCode === 429 : false
GitHubAPIError(message, statusCode) ==
    [cls |-> "GitHubAPIError", code |-> "GITHUB_API_ERROR", statusCode |-> statusCode,
     retryable |-> IF statusCode # NoStatus
                   THEN statusCode >= 500 \/ statusCode = 429
                   ELSE FALSE,
     message |-> message, context |-> NoContext]

ConfigurationError(message) ==
    [cls |-> "ConfigurationError", code |-> "CONFIGURATION_ERROR",
     statusCode |-> NoStatus, retryable |-> FALSE, message |-> message,
     context |-> NoContext]

AnalysisError(message, retryable) ==
    [cls |-> "AnalysisError", code |-> "ANALYSIS_ERROR", statusCode |-> NoStatus,
     retryable |-> retryable, message |-> message, context |-> NoContext]

\* an error that is no MCPServerError: a network failure, or the host client's
\* RequestError, which carries the HTTP status in .status
PlainError(message, status) ==
    [cls |-> "Error", code |-> "none", statusCode |-> status, retryable |-> FALSE,
     message |-> message, context |-> NoContext]

\* error instanceof MCPServerError
IsMCPServerError(error) ==
    error.cls \in {"MCPServerError", "ValidationError", "GitHubAPIError",
                   "ConfigurationError", "AnalysisError"}

\* the errors an operation passed to handleWithRetry can throw; a plain
\* MCPServerError is one that an inner wrapError produced
ThrownErrors ==
    {ValidationError(m) : m \in Messages}
    \cup {ConfigurationError(m) : m \in Messages}
    \cup {GitHubAPIError(m, s) : m \in Messages, s \in Statuses \cup {NoStatus}}
    \cup {AnalysisError(m, r) : m \in Messages, r \in BOOLEAN}
    \cup {MCPServerError(m, "UNEXPECTED_ERROR", FALSE, c) : m \in Messages, c \in Contexts}
    \cup {PlainError(m, s) : m \in Messages, s \in Statuses \cup {NoStatus}}

\* the mutant of isRetryable: the network check comes before the class check
isRetryableByMessage(error) ==
    IF error.message \in NetworkMessages THEN TRUE
    ELSE IF IsMCPServerError(error) THEN error.retryable
    ELSE FALSE

isRetryable(error) ==
    IF IsMCPServerError(error) THEN error.retryable
    ELSE IF error.message \in NetworkMessages THEN TRUE
    ELSE FALSE

\* the mutant of calculateDelay: the 30 s cap is missing
calculateDelayNoCap(baseDelay, attempt) == baseDelay * 2 ^ (attempt - 1)

\* Math.min(baseDelay * Math.pow(2, attempt - 1), 30000)
calculateDelay(baseDelay, attempt) == Min(baseDelay * 2 ^ (attempt - 1), MaxDelay)

\* the mutant of wrapError: every error is wrapped with the context
wrapErrorAlways(error, context) ==
    MCPServerError(error.message, "UNEXPECTED_ERROR", FALSE, context)

\* `Unexpected error in ${context}: ${error.message}`; an MCPServerError is
\* returned as it is
wrapError(error, context) ==
    IF IsMCPServerError(error) THEN error
    ELSE MCPServerError(error.message, "UNEXPECTED_ERROR", FALSE, context)

RetryCounts == 0..MaxRetryCount
\* retryDelay in ms: the default, and bases below, at and above the cap
RetryDelays == {DefaultRetryDelay, 0, 10000, 20000, 30000, 40000}

IdleRc ==
    [pc |-> "idle", maxRetries |-> 0, retryDelay |-> 0, context |-> NoContext,
     attempt |-> 0, calls |-> 0, lastError |-> NoError, sleeps |-> <<>>,
     value |-> "none", thrown |-> NoError]

\* what wrapError(undefined, context) throws when it reads error.message
UndefinedLastError == PlainError("Cannot read properties of undefined", NoStatus)

\* the mutant of hwrStart: the loop body is entered whatever maxRetries is
hwrStartAlways(maxRetries, retryDelay, context) ==
    [IdleRc EXCEPT !.pc = "running", !.maxRetries = maxRetries,
                   !.retryDelay = retryDelay, !.context = context,
                   !.attempt = 1, !.calls = 1]

\* entering handleWithRetry: attempt = 1 and, if attempt <= maxRetries + 1, the
\* first operation() is awaited; otherwise the loop is skipped and the throw
\* after it finds lastError unassigned
hwrStart(maxRetries, retryDelay, context) ==
    IF 1 <= maxRetries + 1
    THEN [IdleRc EXCEPT !.pc = "running", !.maxRetries = maxRetries,
                        !.retryDelay = retryDelay, !.context = context,
                        !.attempt = 1, !.calls = 1]
    ELSE [IdleRc EXCEPT !.pc = "thrown", !.maxRetries = maxRetries,
                        !.retryDelay = retryDelay, !.context = context,
                        !.attempt = 1, !.thrown = UndefinedLastError]

\* return await operation()
hwrOnSuccess(r, value) == [r EXCEPT !.pc = "returned", !.value = value]

\* the mutant of hwrOnFailure: the last retry is not made
hwrOnFailureOneFewer(r, error) ==
    IF r.attempt >= r.maxRetries \/ ~isRetryable(error)
    THEN [r EXCEPT !.pc = "thrown", !.lastError = error,
                   !.thrown = wrapError(error, r.context)]
    ELSE [r EXCEPT !.pc = "sleeping", !.lastError = error,
                   !.sleeps = Append(@, calculateDelay(r.retryDelay, r.attempt))]

\* the catch block, and for a break the throw after the loop
hwrOnFailure(r, error) ==
    IF r.attempt > r.maxRetries \/ ~isRetryable(error)
    THEN [r EXCEPT !.pc = "thrown", !.lastError = error,
                   !.thrown = wrapError(error, r.context)]
    ELSE [r EXCEPT !.pc = "sleeping", !.lastError = error,
                   !.sleeps = Append(@, calculateDelay(r.retryDelay, r.attempt))]

\* the sleep is over: attempt++ and operation() is awaited again
hwrOnWake(r) ==
    [r EXCEPT !.pc = "running", !.attempt = @ + 1, !.calls = @ + 1]

RetryIdle == rc = IdleRc

HandleWithRetry(maxRetries, retryDelay, context) ==
    /\ rc.pc = "idle"
    /\ rc' = hwrStart(maxRetries, retryDelay, context)
    /\ UNCHANGED notRetry

OperationReturns(value) ==
    /\ rc.pc = "running"
    /\ rc' = hwrOnSuccess(rc, value)
    /\ UNCHANGED notRetry

OperationThrows(error) ==
    /\ rc.pc = "running"
    /\ rc' = hwrOnFailure(rc, error)
    /\ UNCHANGED notRetry

SleepDone ==
    /\ rc.pc = "sleeping"
    /\ rc' = hwrOnWake(rc)
    /\ UNCHANGED notRetry

(***************************************************************************)
(* GitHubService: getRepository, listFiles, getFileContent                 *)
(***************************************************************************)
MaxHostFails == 4
DefaultRetryCount == 3
MaxServiceTime == 2

Callers == {"c1"}
Ops == {"getRepository", "listFiles", "getFileContent"}

\* CacheKeyGenerator.repoInfo / fileList / fileContent of the call's arguments
KeyOf(op) ==
    CASE op = "getRepository" -> "repo-info:o/r"
      [] op = "listFiles" -> "files:o/r/main:"
      [] op = "getFileContent" -> "file:o/r/main:a.ts"

\* the context string the call hands to handleWithRetry
ContextOf(op) ==
    CASE op = "getRepository" -> "getRepository(o/r)"
      [] op = "listFiles" -> "listFiles(o/r:)"
      [] op = "getFileContent" -> "getFileContent(o/r:a.ts)"

\* a failed host request: the client's RequestError with the HTTP status, or a
\* network failure; neither is an MCPServerError
HostFailures ==
    {PlainError("other", s) : s \in {404, 429, 503}}
    \cup {PlainError(m, NoStatus) : m \in {"ECONNRESET", "ETIMEDOUT"}}

\* an answered host request: the resource, or for a content request a directory
Payloads(op) == IF op = "getFileContent" THEN Values \cup {"dir"} ELSE Values

IdleCall ==
    [op |-> "none", key |-> "none", hit |-> FALSE, planFailure |-> NoError,
     planFails |-> 0, served |-> 0, rc |-> IdleRc]

\* this.config of the constructor and this.octokit
ServiceInit ==
    /\ svc \in [configured : {FALSE}, cacheEnabled : BOOLEAN, cacheTtl : Ttls,
                rateLimitRetryCount : {0, DefaultRetryCount}]
    /\ call = [c \in Callers |-> IdleCall]

ServiceIdle ==
    /\ svc = [configured |-> FALSE, cacheEnabled |-> TRUE, cacheTtl |-> 0,
              rateLimitRetryCount |-> 0]
    /\ call = [c \in Callers |-> IdleCall]

\* configure(token)
Configure ==
    /\ svc' = [svc EXCEPT !.configured = TRUE]
    /\ UNCHANGED <<call, now, cache, notService>>

\* the mutant of svcCached: the entry's age is not looked at
svcCachedAnyAge(key) ==
    IF svc.cacheEnabled /\ cache[key] # NoEntry THEN cache[key].data ELSE "null"

\* if (this.config.cacheEnabled) { const cached = this.cache.get(cacheKey) ... }
svcCached(key) ==
    IF svc.cacheEnabled THEN CacheGetResult(cache, key, now) ELSE "null"

\* if (this.config.cacheEnabled) { this.cache.set(cacheKey, data, cacheTtl) }
svcStore(key, data) ==
    IF svc.cacheEnabled THEN CacheAfterSet(cache, key, data, svc.cacheTtl, now)
    ELSE cache

\* getRepository / listFiles / getFileContent up to their first await:
\* ensureConfigured, the cache lookup, and on a miss the first host request
ServiceCall(c, op, failure, fails) ==
    /\ call[c].rc.pc = "idle"
    /\ IF ~svc.configured
       THEN /\ failure = NoError /\ fails = 0
            /\ call' = [call EXCEPT ![c] =
                  [IdleCall EXCEPT !.op = op, !.key = KeyOf(op),
                     !.rc = [IdleRc EXCEPT !.pc = "thrown",
                                !.thrown = GitHubAPIError("other", NoStatus)]]]
            /\ UNCHANGED cache
       ELSE /\ cache' = IF svc.cacheEnabled
                        THEN CacheAfterGet(cache, KeyOf(op), now)
                        ELSE cache
            /\ IF svcCached(KeyOf(op)) # "null"
               THEN /\ failure = NoError /\ fails = 0
                    /\ call' = [call EXCEPT ![c] =
                          [IdleCall EXCEPT !.op = op, !.key = KeyOf(op), !.hit = TRUE,
                             !.rc = [IdleRc EXCEPT !.pc = "returned",
                                        !.value = svcCached(KeyOf(op))]]]
               ELSE /\ failure \in HostFailures
                    /\ call' = [call EXCEPT ![c] =
                          [IdleCall EXCEPT !.op = op, !.key = KeyOf(op),
                             !.planFailure = failure, !.planFails = fails,
                             !.rc = hwrStart(svc.rateLimitRetryCount,
                                             DefaultRetryDelay, ContextOf(op))]]
    /\ UNCHANGED <<svc, now, notService>>

\* the mutant of HostFails: the failure is cached as if it were the resource
HostFailsStoring(c) ==
    /\ call[c].rc.pc = "running"
    /\ call[c].served < call[c].planFails
    /\ call' = [call EXCEPT ![c].served = @ + 1,
                            ![c].rc = hwrOnFailure(@, call[c].planFailure)]
    /\ cache' = svcStore(call[c].key, "v1")
    /\ UNCHANGED <<svc, now, notService>>

\* the awaited host request rejects: the catch block of handleWithRetry
HostFails(c) ==
    /\ call[c].rc.pc = "running"
    /\ call[c].served < call[c].planFails
    /\ call' = [call EXCEPT ![c].served = @ + 1,
                            ![c].rc = hwrOnFailure(@, call[c].planFailure)]
    /\ UNCHANGED <<svc, now, cache, notService>>

\* the awaited host request resolves: the rest of the operation closure
HostAnswers(c, payload) ==
    /\ call[c].rc.pc = "running"
    /\ call[c].served >= call[c].planFails
    /\ payload \in Payloads(call[c].op)
    /\ IF payload = "dir"
       THEN /\ call' = [call EXCEPT ![c].served = @ + 1,
                          ![c].rc = hwrOnFailure(@, GitHubAPIError("other", NoStatus))]
            /\ UNCHANGED cache
       ELSE /\ call' = [call EXCEPT ![c].served = @ + 1,
                                    ![c].rc = hwrOnSuccess(@, payload)]
            /\ cache' = svcStore(call[c].key, payload)
    /\ UNCHANGED <<svc, now, notService>>

\* await this.sleep(delay) is over
BackoffDone(c) ==
    /\ call[c].rc.pc = "sleeping"
    /\ call' = [call EXCEPT ![c].rc = hwrOnWake(@)]
    /\ UNCHANGED <<svc, now, cache, notService>>

\* the caller has taken the result or the error
CallEnds(c) ==
    /\ call[c].rc.pc \in {"returned", "thrown"}
    /\ call' = [call EXCEPT ![c] = IdleCall]
    /\ UNCHANGED <<svc, now, cache, notService>>

\* clearCache()
ServiceClearCache ==
    /\ svc.cacheEnabled
    /\ cache' = [k \in Keys |-> NoEntry]
    /\ UNCHANGED <<svc, call, now, notService>>

\* the cache's sweep timer
ServiceCleanup ==
    /\ cache' = CacheAfterCleanup(cache, now)
    /\ UNCHANGED <<svc, call, now, notService>>

ServiceTick ==
    /\ now < MaxServiceTime
    /\ now' = now + 1
    /\ UNCHANGED <<svc, call, cache, notService>>

(***************************************************************************)
(* CodeAnalyzer.analyzeFiles                                               *)
(***************************************************************************)
MaxBatchFiles == 6
maxConcurrent == 5

BatchFiles == 1..MaxBatchFiles

\* files.slice(i, i + maxConcurrent), as positions 1..n of files
BatchOf(i, n) == {j \in 1..n : j > i /\ j <= i + maxConcurrent}

\* the positions of s in increasing order
RECURSIVE Ascending(_)
Ascending(s) ==
    IF s = {} THEN <<>>
    ELSE LET m == CHOOSE x \in s : \A y \in s : x <= y
         IN  <<m>> \o Ascending(s \ {m})

IdleAf ==
    [pc |-> "idle", n |-> 0, i |-> 0, promise |-> [j \in BatchFiles |-> "none"],
     settled |-> <<>>, results |-> <<>>]

\* batch.map(file => this.analyzeFile(...)): a promise per file of the batch
afIssue(a, i) ==
    [a EXCEPT !.i = i,
              !.promise = [j \in BatchFiles |->
                              IF j \in BatchOf(i, a.n) THEN "pending" ELSE @[j]]]

\* the mutant of afBatchSettled: the batch is left at its first settled promise
afBatchAnySettled(a) ==
    \E j \in BatchOf(a.i, a.n) : a.promise[j] \in {"fulfilled", "rejected"}

\* await Promise.allSettled(batchPromises) resumes
afBatchSettled(a) ==
    \A j \in BatchOf(a.i, a.n) : a.promise[j] \in {"fulfilled", "rejected"}

\* the mutant of afCollect: the fulfilled values in the order they settled in
afCollectAsSettled(a) ==
    a.results \o SelectSeq(a.settled,
                           LAMBDA j : j \in BatchOf(a.i, a.n) /\ a.promise[j] = "fulfilled")

\* the for loop over batchResults: the fulfilled values, in the batch's order
afCollect(a) ==
    a.results \o Ascending({j \in BatchOf(a.i, a.n) : a.promise[j] = "fulfilled"})

BatchIdle == af = IdleAf

\* analyzeFiles(files, options) up to its first await
AnalyzeFiles(n) ==
    /\ af.pc = "idle"
    /\ af' = IF n = 0
             THEN [IdleAf EXCEPT !.pc = "done"]
             ELSE afIssue([IdleAf EXCEPT !.pc = "awaiting", !.n = n], 0)
    /\ UNCHANGED notBatch

\* the promise of one analyzeFile call settles; the order among the promises of
\* a batch is left open, and settled records it
AnalyzeFileSettles(j, outcome) ==
    /\ af.pc = "awaiting"
    /\ af.promise[j] = "pending"
    /\ af' = [af EXCEPT !.promise[j] = outcome, !.settled = Append(@, j)]
    /\ UNCHANGED notBatch

\* allSettled resumes: the results are collected and the loop goes on to the
\* next batch, or returns
BatchSettled ==
    /\ af.pc = "awaiting"
    /\ afBatchSettled(af)
    /\ LET collected == [af EXCEPT !.results = afCollect(af)]
       IN  af' = IF af.i + maxConcurrent < af.n
                 THEN afIssue(collected, af.i + maxConcurrent)
                 ELSE [collected EXCEPT !.pc = "done"]
    /\ UNCHANGED notBatch

(***************************************************************************)
(* analizarRepositorio                                                     *)
(***************************************************************************)
MaxRepoFiles == 7
MaxAnalyzed == 20

RepoFiles == 1..MaxRepoFiles

IdleRepo ==
    [pc |-> "idle", totalFiles |-> 0, selected |-> 0,
     op |-> [j \in RepoFiles |-> "none"], analyzedFiles |-> 0, files |-> <<>>]

RepoIdle == repo = IdleRepo

\* the per-file operations (content fetch plus analysis) that are in flight
InFlight(r) == {j \in RepoFiles : r.op[j] = "inflight"}

\* the tool is invoked with valid arguments: getRepository and listReactFiles
\* are awaited
AnalizarRepositorio ==
    /\ repo.pc = "idle"
    /\ repo' = [IdleRepo EXCEPT !.pc = "listing"]
    /\ UNCHANGED notRepo

\* getRepository or listReactFiles rejects: the error is logged and re-thrown
RepoListingFails ==
    /\ repo.pc = "listing"
    /\ repo' = [repo EXCEPT !.pc = "thrown"]
    /\ UNCHANGED notRepo

\* the files are listed: the empty report, or prioritizeFiles(files).slice(0, 20)
\* and importantFiles.map(async file => ...), which starts every file's operation
RepoFilesListed(n) ==
    /\ repo.pc = "listing"
    /\ repo' = IF n = 0
               THEN [repo EXCEPT !.pc = "done"]
               ELSE [repo EXCEPT !.pc = "awaiting", !.totalFiles = n,
                        !.selected = Min(n, MaxAnalyzed),
                        !.op = [j \in RepoFiles |->
                                   IF j <= Min(n, MaxAnalyzed) THEN "inflight"
                                   ELSE "none"]]
    /\ UNCHANGED notRepo

\* the mutant of RepoFileSettles: without the catch, a file's failure rejects
\* Promise.all and with it the run
RepoFileSettlesAborting(j, outcome) ==
    /\ repo.pc = "awaiting"
    /\ repo.op[j] = "inflight"
    /\ repo' = IF outcome = "null"
               THEN [repo EXCEPT !.op[j] = outcome, !.pc = "thrown"]
               ELSE [repo EXCEPT !.op[j] = outcome]
    /\ UNCHANGED notRepo

\* one file's getFileContent and analyzeFile end: a result, or null from the catch
RepoFileSettles(j, outcome) ==
    /\ repo.pc = "awaiting"
    /\ repo.op[j] = "inflight"
    /\ repo' = [repo EXCEPT !.op[j] = outcome]
    /\ UNCHANGED notRepo

\* await Promise.all(analysisPromises) resumes with the values in the order of
\* importantFiles; the nulls are filtered out
RepoAllSettled ==
    /\ repo.pc = "awaiting"
    /\ InFlight(repo) = {}
    /\ LET analysisResults == Ascending({j \in RepoFiles : repo.op[j] = "result"})
       IN  repo' = [repo EXCEPT !.pc = "done",
                      !.analyzedFiles = Len(analysisResults),
                      !.files = analysisResults]
    /\ UNCHANGED notRepo

(***************************************************************************)
(* CodeAnalyzer.analyzeFile                                                *)
(***************************************************************************)
MaxMatches == 2

\* evaluating a rule on the content gives its number of matches, or throws
Throws == -1
RuleOutcomes == (0..MaxMatches) \cup {Throws}

\* four rules of the corpus, in the order of this.patterns
Patterns ==
    << [category |-> "solidPrinciples", severity |-> "critical",
        issue |-> "Violacion del SRP (Single Responsibility Principle)"],
       [category |-> "domainLayer", severity |-> "critical",
        issue |-> "Entidad de dominio con dependencias externas"],
       [category |-> "infrastructureLayer", severity |-> "good",
        issue |-> "Repositorio detectado"],
       [category |-> "infrastructureLayer", severity |-> "high",
        issue |-> "Llamada HTTP directa"] >>

Categories == {Patterns[k].category : k \in 1..Len(Patterns)}

\* options.enabledCategories || Object.keys(this.patterns), options.includeGoodPractices
AnalysisOptions ==
    [includeGoodPractices : BOOLEAN,
     enabledCategories : {Categories, {"solidPrinciples", "infrastructureLayer"}}]

\* what analyzeCleanCode can return: nothing, more than 5 one-letter names, or a
\* function of more than 50 lines
CleanCodeFindings ==
    { <<>>,
      << [category |-> "cleanCode", severity |-> "medium", occurrences |-> 6,
          issue |-> "Variables con nombres de una letra"] >>,
      << [category |-> "cleanCode", severity |-> "high", occurrences |-> 1,
          issue |-> "Funcion con 60 lineas"] >> }

\* the mutant of patternIssues: the issue is pushed without the matches.length > 0 test
patternIssuesUnguarded(pattern, outcome, options) ==
    IF outcome = Throws THEN <<>>
    ELSE IF pattern.severity = "good" /\ ~options.includeGoodPractices THEN <<>>
    ELSE << [category |-> pattern.category, severity |-> pattern.severity,
             occurrences |-> outcome, issue |-> pattern.issue] >>

\* the body of the loop over the patterns of a category: the try, the test of the
\* matches, the skip of a good practice that was not asked for, the push; the
\* catch only logs
patternIssues(pattern, outcome, options) ==
    IF outcome = Throws THEN <<>>
    ELSE IF outcome = 0 THEN <<>>
    ELSE IF pattern.severity = "good" /\ ~options.includeGoodPractices THEN <<>>
    ELSE << [category |-> pattern.category, severity |-> pattern.severity,
             occurrences |-> outcome, issue |-> pattern.issue] >>

\* the mutant of patternLoop: one try around the loops, so that a rule that throws
\* ends the evaluation of the rules after it
RECURSIVE patternLoopOneTry(_, _, _)
patternLoopOneTry(k, found, options) ==
    IF k > Len(Patterns) THEN <<>>
    ELSE IF Patterns[k].category \notin options.enabledCategories
    THEN patternLoopOneTry(k + 1, found, options)
    ELSE IF found[k] = Throws THEN <<>>
    ELSE patternIssues(Patterns[k], found[k], options)
             \o patternLoopOneTry(k + 1, found, options)

\* the loops over the categories and their patterns, from rule k on
RECURSIVE patternLoop(_, _, _)
patternLoop(k, found, options) ==
    IF k > Len(Patterns) THEN <<>>
    ELSE IF Patterns[k].category \notin options.enabledCategories
    THEN patternLoop(k + 1, found, options)
    ELSE patternIssues(Patterns[k], found[k], options)
             \o patternLoop(k + 1, found, options)

analyzePatterns(found, cleanCode, options) == patternLoop(1, found, options) \o cleanCode

generateSummary(is) ==
    [s \in Severities |-> Cardinality({i \in 1..Len(is) : is[i].severity = s})]
        @@ [total |-> Len(is)]

\* issue.includes('SRP') || issue.includes('multiples responsabilidades')
srpViolation(issue) == issue = "Violacion del SRP (Single Responsibility Principle)"

\* issue.includes('HTTP directa') || issue.includes('fetch') || issue.includes('axios')
httpIssue(issue) == issue = "Llamada HTTP directa"

\* the patterns of the suggestions, in the order they are pushed
generateSuggestions(is) ==
    (IF \E i \in 1..Len(is) : srpViolation(is[i].issue)
     THEN <<"Single Responsibility Principle">> ELSE <<>>)
    \o (IF \E i \in 1..Len(is) : httpIssue(is[i].issue)
        THEN <<"Repository Pattern">> ELSE <<>>)

\* the result returned for a content longer than options.maxFileSize
TooLargeResult ==
    [totalIssues |-> 0,
     issues |-> << [category |-> "fileSize", severity |-> "medium", occurrences |-> 1,
                    issue |-> "Archivo demasiado grande para analizar"] >>,
     summary |-> [total |-> 1, critical |-> 0, high |-> 0, medium |-> 1, low |-> 0,
                  good |-> 0, info |-> 0],
     architectureScore |-> 50, cleanCodeScore |-> 50, suggestions |-> <<>>]

analyzeFile(oversize, found, cleanCode, options) ==
    IF oversize THEN TooLargeResult
    ELSE LET is == analyzePatterns(found, cleanCode, options)
         IN  [totalIssues |-> Len(is), issues |-> is, summary |-> generateSummary(is),
              architectureScore |-> calculateScores(is).architecture,
              cleanCodeScore |-> calculateScores(is).cleanCode,
              suggestions |-> generateSuggestions(is)]

NoResult == [totalIssues |-> -1]

IdleFa ==
    [pc |-> "idle", oversize |-> FALSE, found |-> [k \in 1..Len(Patterns) |-> 0],
     cleanCode |-> <<>>,
     options |-> [includeGoodPractices |-> FALSE, enabledCategories |-> Categories],
     result |-> NoResult]

AnalyzeIdle == fa = IdleFa

\* the arguments of a call of analyzeFile, as what the content holds for each rule
AnalyzeInit ==
    fa \in [pc : {"called"}, oversize : BOOLEAN,
            found : [1..Len(Patterns) -> RuleOutcomes],
            cleanCode : CleanCodeFindings, options : AnalysisOptions,
            result : {NoResult}]

\* analyzeFile(filepath, content, options) returns
AnalyzeFile ==
    /\ fa.pc = "called"
    /\ fa' = [fa EXCEPT !.pc = "returned",
                !.result = analyzeFile(fa.oversize, fa.found, fa.cleanCode, fa.options)]
    /\ UNCHANGED notAnalyze

(***************************************************************************)
(* analizarRepositorio: the report built from the analysis results         *)
(***************************************************************************)
MaxReportFiles == 3
TopIssuesLimit == 15

\* what analyzeFile returns for a file with the issues is
fileResult(is) ==
    [issues |-> is, summary |-> generateSummary(is),
     architectureScore |-> calculateScores(is).architecture,
     cleanCodeScore |-> calculateScores(is).cleanCode]

FoundIssue(issue, severity, occurrences) ==
    [category |-> "corpus", severity |-> severity, occurrences |-> occurrences,
     issue |-> issue]

\* fourteen more rules of the corpus, all matching in one file
ManyIssues ==
    << FoundIssue("Entidad de dominio sin validacion", "high", 2),
       FoundIssue("Interface de dominio detectada", "info", 3),
       FoundIssue("Hook personalizado detectado", "medium", 1),
       FoundIssue("Logica de datos mezclada con caso de uso", "high", 2),
       FoundIssue("Caso de uso creando dependencias", "high", 3),
       FoundIssue("Acceso directo al storage del navegador", "medium", 1),
       FoundIssue("Componente muy grande", "high", 1),
       FoundIssue("Multiples useState relacionados", "medium", 3),
       FoundIssue("Objeto inline como prop", "high", 1),
       FoundIssue("Funcion inline en map", "high", 2),
       FoundIssue("Posible props drilling detectado", "medium", 3),
       FoundIssue("useEffect con array de dependencias vacio", "low", 1),
       FoundIssue("Renderizado condicional complejo", "medium", 2),
       FoundIssue("Importacion dinamica sin lazy loading", "low", 3) >>

\* the per-file results the report is built from
FileResults ==
    { fileResult(<<>>),
      fileResult(<< FoundIssue(Patterns[1].issue, "critical", 1),
                    FoundIssue(Patterns[3].issue, "good", 2) >>),
      fileResult(<< FoundIssue(Patterns[3].issue, "good", 1),
                    FoundIssue("Interface de dominio detectada", "info", 1),
                    FoundIssue(Patterns[1].issue, "critical", 2),
                    FoundIssue(Patterns[4].issue, "high", 1) >>),
      fileResult(<< FoundIssue("Demasiados comentarios", "low", 11) >>),
      fileResult(ManyIssues),
      [k \in {"issues", "summary", "architectureScore", "cleanCodeScore"} |->
          TooLargeResult[k]] }

RECURSIVE sumOf(_, _)
\* results.reduce((sum, r) => sum + r[field], 0)
sumOf(results, field) ==
    IF Len(results) = 0 THEN 0
    ELSE Head(results)[field] + sumOf(Tail(results), field)

calculateOverallScore(results) ==
    IF Len(results) = 0
    THEN [architecture |-> 100, cleanCode |-> 100, overall |-> 100]
    ELSE LET sumArchitecture == sumOf(results, "architectureScore")
             sumCleanCode == sumOf(results, "cleanCodeScore")
         IN  [architecture |-> MathRound(sumArchitecture, Len(results)),
              cleanCode |-> MathRound(sumCleanCode, Len(results)),
              overall |-> MathRound(sumArchitecture + sumCleanCode, 2 * Len(results))]

consolidateSummary(results) ==
    [k \in Severities \cup {"total"} |->
        sumOf([i \in 1..Len(results) |-> results[i].summary], k)]

RECURSIVE allIssues(_)
\* results.flatMap((r) => r.issues)
allIssues(results) ==
    IF Len(results) = 0 THEN <<>>
    ELSE Head(results).issues \o allIssues(Tail(results))

\* issueMap.has(key): the key `${issue}|${severity}` names one pair only, since no
\* severity holds a '|'
sameKey(a, b) == a.issue = b.issue /\ a.severity = b.severity

RECURSIVE sumOccurrences(_, _)
\* the count an entry of issueMap ends with: the occurrences of the issues at
\* the positions at, added up
sumOccurrences(all, at) ==
    IF at = {} THEN 0
    ELSE LET n == CHOOSE x \in at : TRUE
         IN  all[n].occurrences + sumOccurrences(all, at \ {n})

\* issueMap after the forEach: one entry per key, in the order the keys were
\* first seen (a Map keeps its insertion order)
consolidate(all) ==
    LET firstSeen == Ascending({n \in 1..Len(all) :
                                   \A m \in 1..(n - 1) : ~sameKey(all[m], all[n])})
    IN  [k \in 1..Len(firstSeen) |->
            [issue |-> all[firstSeen[k]].issue,
             severity |-> all[firstSeen[k]].severity,
             count |-> sumOccurrences(all, {m \in 1..Len(all) :
                                               sameKey(all[m], all[firstSeen[k]])})]]

severityOrder ==
    [critical |-> 4, high |-> 3, medium |-> 2, low |-> 1, good |-> -1, info |-> 0]

\* the mutant of compareTopIssues: the entries are compared by count alone
compareByCount(a, b) == b.count - a.count

\* the comparison function handed to sort
compareTopIssues(a, b) ==
    IF severityOrder[a.severity] # severityOrder[b.severity]
    THEN severityOrder[b.severity] - severityOrder[a.severity]
    ELSE b.count - a.count

RECURSIVE sortTopIssues(_, _)
\* Array.prototype.sort, which is stable, on the first n entries: each entry goes
\* behind the entries that do not come after it
sortTopIssues(entries, n) ==
    IF n = 0 THEN <<>>
    ELSE LET sorted == sortTopIssues(entries, n - 1)
             x == entries[n]
             p == Cardinality({k \in 1..Len(sorted) :
                                  compareTopIssues(sorted[k], x) <= 0})
         IN  SubSeq(sorted, 1, p) \o <<x>> \o SubSeq(sorted, p + 1, Len(sorted))

getTopIssues(results) ==
    LET all == allIssues(results)
        issueMap == consolidate(all)
        ordered == sortTopIssues(issueMap, Len(issueMap))
    IN  SubSeq(ordered, 1, Min(TopIssuesLimit, Len(ordered)))

NoReport == [totalFiles |-> -1]

\* the report returned once the files are listed and the analyses have ended; the
\* texts of its recommendations are left out
analysisReport(totalFiles, analysisResults) ==
    IF totalFiles = 0
    THEN [totalFiles |-> 0, analyzedFiles |-> 0,
          overallScore |-> [architecture |-> 100, cleanCode |-> 100, overall |-> 100],
          summary |-> [k \in Severities \cup {"total"} |-> 0],
          topIssues |-> <<>>, files |-> <<>>]
    ELSE [totalFiles |-> totalFiles, analyzedFiles |-> Len(analysisResults),
          overallScore |-> calculateOverallScore(analysisResults),
          summary |-> consolidateSummary(analysisResults),
          topIssues |-> getTopIssues(analysisResults), files |-> analysisResults]

IdleRep == [pc |-> "idle", totalFiles |-> 0, results |-> <<>>, report |-> NoReport]

ReportIdle == rep = IdleRep

\* the files that were listed and the results of those, among the first 20, whose
\* content fetch and analysis did not fail
ReportInit ==
    \E n \in 0..MaxReportFiles :
        \E m \in 0..Min(n, MaxAnalyzed) :
            rep \in [pc : {"settled"}, totalFiles : {n},
                     results : [1..m -> FileResults], report : {NoReport}]

\* analizarRepositorio builds its result
BuildReport ==
    /\ rep.pc = "settled"
    /\ rep' = [rep EXCEPT !.pc = "done",
                 !.report = analysisReport(rep.totalFiles, rep.results)]
    /\ UNCHANGED notReport

(***************************************************************************)
(* GitHubService.listReactFiles                                            *)
(***************************************************************************)
\* A name is the sequence of its fragments, cut so that every string the code
\* searches for is one fragment wherever it occurs in a name: "layout.tsx" is
\* <<"lay", "out", ".tsx">>.
reactExtensions == {<<".js">>, <<".jsx">>, <<".ts">>, <<".tsx">>}
ignorePaths == {<<"node_modules">>, <<".next">>, <<"dist">>, <<"build">>, <<"out">>}

Root == 0

\* The repository the host serves: each entry's parent directory, name, type.
Tree ==
    <<[parent |-> 0, name |-> <<"src">>, type |-> "dir"],
      [parent |-> 1, name |-> <<"app">>, type |-> "dir"],
      [parent |-> 2, name |-> <<"lay", "out", ".tsx">>, type |-> "file"],
      [parent |-> 2, name |-> <<"page", ".tsx">>, type |-> "file"],
      [parent |-> 2, name |-> <<"page", ".test", ".tsx">>, type |-> "file"],
      [parent |-> 1, name |-> <<"utils">>, type |-> "dir"],
      [parent |-> 6, name |-> <<"format", ".ts">>, type |-> "file"],
      [parent |-> 6, name |-> <<"notes", ".md">>, type |-> "file"],
      [parent |-> 0, name |-> <<"node_modules">>, type |-> "dir"],
      [parent |-> 9, name |-> <<"index", ".js">>, type |-> "file"],
      [parent |-> 0, name |-> <<"index", ".js">>, type |-> "file"],
      [parent |-> 1, name |-> <<"components">>, type |-> "dir"],
      [parent |-> 12, name |-> <<"Button", ".jsx">>, type |-> "file"],
      [parent |-> 12, name |-> <<"vendor">>, type |-> "submodule"]>>

Entries == 1..Len(Tree)
Directories == {Root} \cup {n \in Entries : Tree[n].type = "dir"}
BasePaths == {Root, 1}

\* file.path: the names from the repository root down, joined by "/"
RECURSIVE pathOf(_)
pathOf(n) ==
    IF Tree[n].parent = Root THEN Tree[n].name
    ELSE pathOf(Tree[n].parent) \o <<"/">> \o Tree[n].name

\* String.prototype.includes: a substring test
includes(s, part) ==
    \E i \in 1..(Len(s) - Len(part) + 1) : SubSeq(s, i, i + Len(part) - 1) = part

\* String.prototype.endsWith
endsWith(s, suffix) ==
    /\ Len(s) >= Len(suffix)
    /\ SubSeq(s, Len(s) - Len(suffix) + 1, Len(s)) = suffix

isIgnored(n) == \E ignored \in ignorePaths : includes(pathOf(n), ignored)
hasReactExtension(n) == \E ext \in reactExtensions : endsWith(Tree[n].name, ext)

\* what the host lists for a directory, in the host's order
listing(dir) == Ascending({n \in Entries : Tree[n].parent = dir})

IdleLr ==
    [pc |-> "idle", base |-> Root, stack |-> <<>>, allFiles |-> <<>>,
     listed |-> {}, failed |-> {}]

ListIdle == lr = IdleLr

\* one call of scanDirectory: waiting for listFiles, or inside its for loop
scanFrame(dir) == [dir |-> dir, listed |-> FALSE, files |-> <<>>]

Top == lr.stack[Len(lr.stack)]
Caller == SubSeq(lr.stack, 1, Len(lr.stack) - 1)

\* scanDirectory returns to its caller; the outermost one ends the scan
scanReturns(l) ==
    [l EXCEPT !.stack = SubSeq(l.stack, 1, Len(l.stack) - 1),
              !.pc = IF Len(l.stack) = 1 THEN "returned" ELSE "scanning"]

ListReactFiles(basePath) ==
    /\ lr.pc = "idle"
    /\ lr' = [lr EXCEPT !.pc = "scanning", !.base = basePath,
                        !.stack = <<scanFrame(basePath)>>]
    /\ UNCHANGED notList

\* this.listFiles resolves
ListFilesReturns ==
    /\ lr.pc = "scanning"
    /\ ~Top.listed
    /\ lr' = [lr EXCEPT !.stack = Caller \o
                            <<[Top EXCEPT !.listed = TRUE, !.files = listing(Top.dir)]>>,
                        !.listed = @ \cup {Top.dir}]
    /\ UNCHANGED notList

\* a failure of listFiles that would end the whole scan (not what the code does)
ListFilesFailsAborting ==
    /\ lr.pc = "scanning"
    /\ ~Top.listed
    /\ lr' = [lr EXCEPT !.pc = "thrown", !.stack = <<>>, !.failed = @ \cup {Top.dir}]
    /\ UNCHANGED notList

\* this.listFiles rejects: the catch of this scanDirectory logs a warning
ListFilesFails ==
    /\ lr.pc = "scanning"
    /\ ~Top.listed
    /\ lr' = [scanReturns(lr) EXCEPT !.failed = @ \cup {Top.dir}]
    /\ UNCHANGED notList

\* one iteration of for (const file of files)
ScanEntry ==
    /\ lr.pc = "scanning"
    /\ Top.listed
    /\ Len(Top.files) > 0
    /\ LET file == Head(Top.files)
           rest == Caller \o <<[Top EXCEPT !.files = Tail(@)]>>
       IN  lr' = IF isIgnored(file) THEN [lr EXCEPT !.stack = rest]
                 ELSE IF Tree[file].type = "dir"
                      THEN [lr EXCEPT !.stack = rest \o <<scanFrame(file)>>]
                 ELSE IF Tree[file].type = "file" /\ hasReactExtension(file)
                      THEN [lr EXCEPT !.stack = rest, !.allFiles = Append(@, file)]
                 ELSE [lr EXCEPT !.stack = rest]
    /\ UNCHANGED notList

\* the for loop is over
ScanReturns ==
    /\ lr.pc = "scanning"
    /\ Top.listed
    /\ Len(Top.files) = 0
    /\ lr' = scanReturns(lr)
    /\ UNCHANGED notList

(***************************************************************************)
(* validateToolArguments                                                   *)
(***************************************************************************)
\* Argument values. An argument that is undefined is a key the object lacks.
Undefined == [kind |-> "undefined"]
Null == [kind |-> "object"]
SomeNumber == [kind |-> "number"]
Str(text) == [kind |-> "string", text |-> text]

ValidToken == "ghp_" \o "xxxxxxxxxxxxxxxxxxxxxxxxxxxxxxxxxxxx"
LongToken == ValidToken \o ValidToken \o "xxxxxxxxxxxxxxxxxxxxx"

Texts ==
    {"", "facebook", "facebook@invalid", "src/index.js", "web", "mvc",
     ValidToken, LongToken}

ArgValues == {Undefined, Null, SomeNumber} \cup {Str(t) : t \in Texts}

\* RegExp.prototype.test of each pattern of TOOL_SCHEMAS, on Texts
test(pattern, text) ==
    CASE pattern = "^gh[ps]_[a-zA-Z0-9]{36,}$" ->
            text \in {ValidToken, LongToken}
      [] pattern = "^[a-zA-Z0-9\\-._]+$" ->
            text \in {"facebook", "web", "mvc", ValidToken, LongToken}
      [] pattern = "^[a-zA-Z0-9\\-._/]+\\.(js|jsx|ts|tsx)$" ->
            text = "src/index.js"
      [] pattern = "^[a-zA-Z0-9\\-._/]+$" ->
            text \in {"facebook", "src/index.js", "web", "mvc", ValidToken, LongToken}
      [] pattern = "^[a-zA-Z0-9\\-._/]*$" ->
            text \in {"", "facebook", "src/index.js", "web", "mvc", ValidToken, LongToken}

nameSchema ==
    [type |-> "string", required |-> TRUE, minLength |-> 1, maxLength |-> 100,
     pattern |-> "^[a-zA-Z0-9\\-._]+$"]

branchSchema ==
    [type |-> "string", required |-> FALSE, minLength |-> 1, maxLength |-> 100,
     pattern |-> "^[a-zA-Z0-9\\-._/]+$"]

\* each tool's parameters, in the order Object.entries gives them
TOOL_SCHEMAS ==
    [configurar_github |->
        <<[name |-> "token",
           schema |-> [type |-> "string", required |-> TRUE, minLength |-> 20,
                       maxLength |-> 100, pattern |-> "^gh[ps]_[a-zA-Z0-9]{36,}$"]]>>,
     analizar_archivo |->
        <<[name |-> "owner", schema |-> nameSchema],
          [name |-> "repo", schema |-> nameSchema],
          [name |-> "path",
           schema |-> [type |-> "string", required |-> TRUE, minLength |-> 1,
                       maxLength |-> 500,
                       pattern |-> "^[a-zA-Z0-9\\-._/]+\\.(js|jsx|ts|tsx)$"]],
          [name |-> "branch", schema |-> branchSchema]>>,
     analizar_repositorio |->
        <<[name |-> "owner", schema |-> nameSchema],
          [name |-> "repo", schema |-> nameSchema],
          [name |-> "branch", schema |-> branchSchema]>>,
     sugerir_arquitectura |->
        <<[name |-> "owner", schema |-> nameSchema],
          [name |-> "repo", schema |-> nameSchema],
          [name |-> "projectType",
           schema |-> [type |-> "string", required |-> FALSE,
                       allowedValues |-> {"web", "api", "mobile", "fullstack",
                                          "library"}]]>>,
     explicar_patron |->
        <<[name |-> "patron",
           schema |-> [type |-> "string", required |-> TRUE, minLength |-> 2,
                       maxLength |-> 50,
                       allowedValues |-> {"repository", "factory", "observer",
                                          "strategy", "singleton", "builder",
                                          "adapter", "decorator", "facade", "proxy",
                                          "command", "state", "template", "visitor",
                                          "mvc", "mvp", "mvvm"}]]>>,
     listar_archivos_react |->
        <<[name |-> "owner", schema |-> nameSchema],
          [name |-> "repo", schema |-> nameSchema],
          [name |-> "path",
           schema |-> [type |-> "string", required |-> FALSE, minLength |-> 0,
                       maxLength |-> 500, pattern |-> "^[a-zA-Z0-9\\-._/]*$"]]>>]

\* the properties every object literal inherits from Object.prototype
ObjectPrototype == {"constructor", "toString", "valueOf", "hasOwnProperty"}

\* TOOL_SCHEMAS[toolName]: an own property, an inherited one (truthy, and
\* without enumerable properties of its own), or undefined
schemaOf(toolName) ==
    IF toolName \in DOMAIN TOOL_SCHEMAS
    THEN [truthy |-> TRUE, entries |-> TOOL_SCHEMAS[toolName]]
    ELSE IF toolName \in ObjectPrototype
         THEN [truthy |-> TRUE, entries |-> <<>>]
         ELSE [truthy |-> FALSE, entries |-> <<>>]

isEmptyValue(value) == value \in {Undefined, Null, Str("")}

\* the errors of one value: the field name with what is wrong
validateValue(value, schema, fieldName) ==
    IF schema.required /\ isEmptyValue(value) THEN <<<<fieldName, "required">>>>
    ELSE IF ~schema.required /\ isEmptyValue(value) THEN <<>>
    ELSE IF value.kind # schema.type THEN <<<<fieldName, "type">>>>
    ELSE (IF "minLength" \in DOMAIN schema /\ Len(value.text) < schema.minLength
          THEN <<<<fieldName, "minLength">>>> ELSE <<>>)
      \o (IF "maxLength" \in DOMAIN schema /\ Len(value.text) > schema.maxLength
          THEN <<<<fieldName, "maxLength">>>> ELSE <<>>)
      \o (IF "pattern" \in DOMAIN schema /\ ~test(schema.pattern, value.text)
          THEN <<<<fieldName, "pattern">>>> ELSE <<>>)
      \o (IF "allowedValues" \in DOMAIN schema /\ value.text \notin schema.allowedValues
          THEN <<<<fieldName, "allowedValues">>>> ELSE <<>>)

\* args[paramName]
argOf(args, paramName) ==
    IF paramName \in DOMAIN args THEN args[paramName] ELSE Undefined

RECURSIVE paramErrors(_, _, _)
paramErrors(entries, args, i) ==
    IF i > Len(entries) THEN <<>>
    ELSE validateValue(argOf(args, entries[i].name), entries[i].schema, entries[i].name)
         \o paramErrors(entries, args, i + 1)

unexpectedParams(entries, args) ==
    {p \in DOMAIN args : args[p] # Undefined}
        \ {entries[i].name : i \in 1..Len(entries)}

validateToolArguments(toolName, args) ==
    LET schema == schemaOf(toolName)
        errors == paramErrors(schema.entries, args, 1)
    IN  IF ~schema.truthy
        THEN [isValid |-> FALSE, errors |-> <<<<toolName, "unknown tool">>>>,
              warnings |-> {}]
        ELSE [isValid |-> Len(errors) = 0, errors |-> errors,
              warnings |-> unexpectedParams(schema.entries, args)]

ToolNames == DOMAIN TOOL_SCHEMAS \cup {"unknown_tool", "constructor"}

\* the argument objects tried for a tool: a value for each of its parameters,
\* with or without one parameter its schema does not have
ParamsOf(toolName) ==
    {schemaOf(toolName).entries[i].name : i \in 1..Len(schemaOf(toolName).entries)}

ToolArguments(toolName) ==
    {a \in [ParamsOf(toolName) \cup {"extra"} -> ArgValues] :
        a["extra"] \in {Undefined, Str("facebook")}}

NoValidation == [isValid |-> FALSE, errors |-> <<>>, warnings |-> {}]

IdleVt == [pc |-> "idle", toolName |-> "unknown_tool", args |-> <<>>,
           result |-> NoValidation]

ValidateIdle == vt = IdleVt

ValidateInit ==
    \E t \in ToolNames : \E a \in ToolArguments(t) :
        vt = [pc |-> "called", toolName |-> t, args |-> a, result |-> NoValidation]

ValidateToolArguments ==
    /\ vt.pc = "called"
    /\ vt' = [vt EXCEPT !.pc = "returned",
                        !.result = validateToolArguments(vt.toolName, vt.args)]
    /\ UNCHANGED notValidate

(***************************************************************************)
(* validateConfig, and the retry handler run under the configuration       *)
(***************************************************************************)
MinRetryCount == 0
MaxConfigRetryCount == 10
MinConcurrentFiles == 1
MaxConcurrentFiles == 50
MinFileSize == 1024

\* the configurations tried: values inside and outside each allowed range
ServerConfigs ==
    [rateLimitRetryCount : {-1, 0, 1, 11}, cacheTtl : {-1, 0, 300000},
     maxConcurrentFiles : {0, 10}, maxFileSize : {1023, 1048576},
     level : {"info", "verbose"}]

validateConfig(config) ==
    LET errors ==
            (IF config.rateLimitRetryCount < MinRetryCount
                \/ config.rateLimitRetryCount > MaxConfigRetryCount
             THEN {"GitHub rate limit retry count must be between 0 and 10"} ELSE {})
            \cup (IF config.cacheTtl < 0
                  THEN {"GitHub cache TTL must be non-negative"} ELSE {})
            \cup (IF config.maxConcurrentFiles < MinConcurrentFiles
                     \/ config.maxConcurrentFiles > MaxConcurrentFiles
                  THEN {"Max concurrent files must be between 1 and 50"} ELSE {})
            \cup (IF config.maxFileSize < MinFileSize
                  THEN {"Max file size must be at least 1KB"} ELSE {})
            \cup (IF config.level \notin {"debug", "info", "warn", "error"}
                  THEN {"Log level must be one of: debug, info, warn, error"} ELSE {})
    IN  [isValid |-> errors = {}, errors |-> errors]

NoConfigResult == [isValid |-> FALSE, errors |-> {}]

IdleCf ==
    [pc |-> "idle",
     config |-> [rateLimitRetryCount |-> 3, cacheTtl |-> 300000,
                 maxConcurrentFiles |-> 10, maxFileSize |-> 1048576,
                 level |-> "info"],
     result |-> NoConfigResult]

ConfigIdle == cf = IdleCf

ConfigInit ==
    \E config \in ServerConfigs :
        cf = [pc |-> "loaded", config |-> config, result |-> NoConfigResult]

ValidateConfig ==
    /\ cf.pc = "loaded"
    /\ cf' = [cf EXCEPT !.pc = "validated", !.result = validateConfig(cf.config)]
    /\ UNCHANGED notConfig

\* a GitHubService call under the configuration: its handleWithRetry gets
\* this.config.rateLimitRetryCount and the default delay
ConfiguredRetry(context) ==
    /\ cf.config.rateLimitRetryCount <= MaxRetryCount
    /\ rc.pc = "idle"
    /\ rc' = hwrStart(cf.config.rateLimitRetryCount, DefaultRetryDelay, context)
    /\ UNCHANGED notRetry

(***************************************************************************)
(* Tool handlers: configurarGitHub, listarArchivosReact, analizarArchivo,  *)
(* analizarRepositorio, sugerirArquitectura                                *)
(***************************************************************************)
\* how many host requests of a handler's or caller's service call may fail
MaxCallFails == 2

\* the handlers, named by the schema they validate against
Handlers ==
    {"configurar_github", "listar_archivos_react", "analizar_archivo",
     "analizar_repositorio", "sugerir_arquitectura"}

\* the first GitHubService call a handler makes once its arguments are valid
firstCall(name) ==
    IF name = "analizar_archivo" THEN "getFileContent" ELSE "getRepository"

HandlerValues ==
    {Undefined, Str("facebook"), Str("facebook@invalid"), Str("src/index.js"),
     Str(ValidToken)}

HandlerArguments(name) ==
    {a \in ToolArguments(name) : \A p \in DOMAIN a : a[p] \in HandlerValues}

IdleTh ==
    [pc |-> "idle", name |-> "none", args |-> <<>>, before |-> FALSE,
     remote |-> 0, error |-> NoError]

ToolsIdle == th = IdleTh

\* this.octokit before the first tool call, and a fixed config
ToolsInit ==
    /\ th = IdleTh
    /\ svc \in [configured : BOOLEAN, cacheEnabled : BOOLEAN, cacheTtl : {1},
                rateLimitRetryCount : {0, 1}]
    /\ call = [c \in Callers |-> IdleCall]

\* a handler that goes to work without looking at the validation result
ToolCallUnvalidated(name, args) ==
    /\ th.pc = "idle"
    /\ LET entered == [th EXCEPT !.name = name, !.args = args,
                                 !.before = svc.configured]
       IN  IF name = "configurar_github"
           THEN /\ svc' = [svc EXCEPT !.configured = TRUE]
                /\ th' = [entered EXCEPT !.pc = "verifying", !.remote = 1]
           ELSE /\ th' = [entered EXCEPT !.pc = "validated"]
                /\ UNCHANGED svc
    /\ UNCHANGED <<call, notToolService>>

\* a handler up to its first await: validateToolArguments, the throw of a
\* ValidationError, sanitizeToolArguments, and for configurarGitHub
\* configure(token) and the request of getRateLimitInfo
ToolCall(name, args) ==
    /\ th.pc = "idle"
    /\ LET validation == validateToolArguments(name, args)
           entered == [th EXCEPT !.name = name, !.args = args,
                                 !.before = svc.configured]
       IN  IF ~validation.isValid
           THEN /\ th' = [entered EXCEPT !.pc = "thrown",
                                         !.error = ValidationError("other")]
                /\ UNCHANGED svc
           ELSE IF name = "configurar_github"
           THEN /\ svc' = [svc EXCEPT !.configured = TRUE]
                /\ th' = [entered EXCEPT !.pc = "verifying", !.remote = 1]
           ELSE /\ th' = [entered EXCEPT !.pc = "validated"]
                /\ UNCHANGED svc
    /\ UNCHANGED <<call, notToolService>>

\* await githubService.getRateLimitInfo() resolves
RateLimitAnswers ==
    /\ th.pc = "verifying"
    /\ th' = [th EXCEPT !.pc = "returned"]
    /\ UNCHANGED <<svc, call, notToolService>>

\* await githubService.getRateLimitInfo() rejects: the catch of configurarGitHub
RateLimitFails(error) ==
    /\ th.pc = "verifying"
    /\ th' = [th EXCEPT !.pc = "thrown",
                        !.error = IF error.cls = "GitHubAPIError"
                                  THEN GitHubAPIError("other", error.statusCode)
                                  ELSE error]
    /\ UNCHANGED <<svc, call, notToolService>>

\* the first service call of the other handlers
ToolServiceCall(failure, fails) ==
    /\ th.pc = "validated"
    /\ ServiceCall("c1", firstCall(th.name), failure, fails)

\* the awaited service call settles: its error is logged and thrown again, its
\* value lets the handler go on to the work the other components model
ToolCallEnds ==
    /\ th.pc = "validated"
    /\ call["c1"].rc.pc \in {"returned", "thrown"}
    /\ th' = [th EXCEPT !.pc = call["c1"].rc.pc, !.error = call["c1"].rc.thrown,
                        !.remote = call["c1"].served]
    /\ call' = [call EXCEPT !["c1"] = IdleCall]
    /\ UNCHANGED <<svc, notToolService>>

(***************************************************************************)
(* GitHubService called by two callers at once                             *)
(***************************************************************************)
ConcurrentCallers == {"c1", "c2"}

\* a configured service with the cache on, and nobody calling yet
ConcurrentInit ==
    /\ svc \in [configured : {TRUE}, cacheEnabled : {TRUE}, cacheTtl : {1},
                rateLimitRetryCount : {0, 1}]
    /\ call = [c \in ConcurrentCallers |-> IdleCall]

(***************************************************************************)
(* GitHubService.verifyRepository                                          *)
(***************************************************************************)
IdleVer ==
    [pc |-> "idle", result |-> "none", error |-> NoError, failure |-> NoError]

VerifyIdle == ver = IdleVer

\* verifyRepository(owner, repo) has been called
VerifyInit ==
    /\ ver = [IdleVer EXCEPT !.pc = "called"]
    /\ svc \in [configured : BOOLEAN, cacheEnabled : BOOLEAN, cacheTtl : {1},
                rateLimitRetryCount : {0, 1}]
    /\ call = [c \in Callers |-> IdleCall]

\* await this.getRepository(owner, repo)
VerifyGetRepository(failure, fails) ==
    /\ ver.pc = "called"
    /\ ServiceCall("c1", "getRepository", failure, fails)

\* return true, or the catch: false for a GitHubAPIError with statusCode 404,
\* throw error for anything else
verifyRepository(settled, error) ==
    IF settled = "returned" THEN [pc |-> "returned", result |-> "true", error |-> NoError]
    ELSE IF error.cls = "GitHubAPIError" /\ error.statusCode = 404
         THEN [pc |-> "returned", result |-> "false", error |-> NoError]
         ELSE [pc |-> "thrown", result |-> "none", error |-> error]

\* getRepository settles
VerifyRepositoryEnds ==
    /\ ver.pc = "called"
    /\ call["c1"].rc.pc \in {"returned", "thrown"}
    /\ LET outcome == verifyRepository(call["c1"].rc.pc, call["c1"].rc.thrown)
       IN  ver' = [pc |-> outcome.pc, result |-> outcome.result,
                   error |-> outcome.error,
                   failure |-> IF call["c1"].rc.pc = "thrown"
                               THEN call["c1"].rc.lastError ELSE NoError]
    /\ call' = [call EXCEPT !["c1"] = IdleCall]
    /\ UNCHANGED <<svc, notVerifyService>>

(***************************************************************************)
(* Specifications                                                          *)
(***************************************************************************)
InitScores == ScoresInit /\ CacheInit /\ RetryIdle /\ ServiceIdle /\ BatchIdle /\ RepoIdle
    /\ AnalyzeIdle /\ ReportIdle /\ ListIdle /\ ValidateIdle /\ ConfigIdle /\ ToolsIdle /\ VerifyIdle

ScoresNext == CalculateScores

SpecScores == InitScores /\ [][ScoresNext]_vars

InitCache == ScoresIdle /\ CacheInit /\ RetryIdle /\ ServiceIdle /\ BatchIdle /\ RepoIdle
    /\ AnalyzeIdle /\ ReportIdle /\ ListIdle /\ ValidateIdle /\ ConfigIdle /\ ToolsIdle /\ VerifyIdle

CacheNext ==
    \/ \E k \in Keys, v \in Values, ttl \in Ttls : CacheSet(k, v, ttl)
    \/ \E k \in Keys : CacheGet(k)
    \/ \E k \in Keys : CacheDelete(k)
    \/ CacheClear
    \/ Cleanup
    \/ Tick

SpecCache == InitCache /\ [][CacheNext]_vars

InitRetry == ScoresIdle /\ CacheInit /\ RetryIdle /\ ServiceIdle /\ BatchIdle /\ RepoIdle
    /\ AnalyzeIdle /\ ReportIdle /\ ListIdle /\ ValidateIdle /\ ConfigIdle /\ ToolsIdle /\ VerifyIdle

RetryNext ==
    \/ \E m \in RetryCounts, d \in RetryDelays, c \in Contexts : HandleWithRetry(m, d, c)
    \/ \E v \in Values : OperationReturns(v)
    \/ \E e \in ThrownErrors : OperationThrows(e)
    \/ SleepDone

SpecRetry == InitRetry /\ [][RetryNext]_vars

InitService ==
    ScoresIdle /\ CacheInit /\ RetryIdle /\ ServiceInit /\ BatchIdle /\ RepoIdle
    /\ AnalyzeIdle /\ ReportIdle /\ ListIdle /\ ValidateIdle /\ ConfigIdle /\ ToolsIdle /\ VerifyIdle

ServiceNext ==
    \/ Configure
    \/ \E c \in Callers, op \in Ops, f \in HostFailures \cup {NoError},
          n \in 0..MaxHostFails : ServiceCall(c, op, f, n)
    \/ \E c \in Callers : HostFails(c)
    \/ \E c \in Callers, p \in Values \cup {"dir"} : HostAnswers(c, p)
    \/ \E c \in Callers : BackoffDone(c)
    \/ \E c \in Callers : CallEnds(c)
    \/ ServiceClearCache
    \/ ServiceCleanup
    \/ ServiceTick

SpecService == InitService /\ [][ServiceNext]_vars

InitBatch ==
    ScoresIdle /\ CacheInit /\ RetryIdle /\ ServiceIdle /\ BatchIdle /\ RepoIdle
    /\ AnalyzeIdle /\ ReportIdle /\ ListIdle /\ ValidateIdle /\ ConfigIdle /\ ToolsIdle /\ VerifyIdle

BatchNext ==
    \/ \E n \in 0..MaxBatchFiles : AnalyzeFiles(n)
    \/ \E j \in BatchFiles, o \in {"fulfilled", "rejected"} : AnalyzeFileSettles(j, o)
    \/ BatchSettled

SpecBatch == InitBatch /\ [][BatchNext]_vars

InitRepo ==
    ScoresIdle /\ CacheInit /\ RetryIdle /\ ServiceIdle /\ BatchIdle /\ RepoIdle
    /\ AnalyzeIdle /\ ReportIdle /\ ListIdle /\ ValidateIdle /\ ConfigIdle /\ ToolsIdle /\ VerifyIdle

RepoNext ==
    \/ AnalizarRepositorio
    \/ RepoListingFails
    \/ \E n \in 0..MaxRepoFiles : RepoFilesListed(n)
    \/ \E j \in RepoFiles, o \in {"result", "null"} : RepoFileSettles(j, o)
    \/ RepoAllSettled

SpecRepo == InitRepo /\ [][RepoNext]_vars

InitAnalyze ==
    ScoresIdle /\ CacheInit /\ RetryIdle /\ ServiceIdle /\ BatchIdle /\ RepoIdle
    /\ AnalyzeInit /\ ReportIdle /\ ListIdle /\ ValidateIdle /\ ConfigIdle /\ ToolsIdle /\ VerifyIdle

AnalyzeNext == AnalyzeFile

SpecAnalyze == InitAnalyze /\ [][AnalyzeNext]_vars

InitReport ==
    ScoresIdle /\ CacheInit /\ RetryIdle /\ ServiceIdle /\ BatchIdle /\ RepoIdle
    /\ AnalyzeIdle /\ ReportInit /\ ListIdle /\ ValidateIdle /\ ConfigIdle /\ ToolsIdle /\ VerifyIdle

ReportNext == BuildReport

SpecReport == InitReport /\ [][ReportNext]_vars

OrderNext ==
    \/ repo.pc = "idle" /\ BatchNext
    \/ af.pc = "idle" /\ RepoNext

SpecOrder == InitBatch /\ [][OrderNext]_vars

InitList ==
    ScoresIdle /\ CacheInit /\ RetryIdle /\ ServiceIdle /\ BatchIdle /\ RepoIdle
    /\ AnalyzeIdle /\ ReportIdle /\ ListIdle /\ ValidateIdle /\ ConfigIdle /\ ToolsIdle /\ VerifyIdle

ListNext ==
    \/ \E b \in BasePaths : ListReactFiles(b)
    \/ ListFilesReturns
    \/ ListFilesFails
    \/ ScanEntry
    \/ ScanReturns

SpecList == InitList /\ [][ListNext]_vars

InitValidate ==
    ScoresIdle /\ CacheInit /\ RetryIdle /\ ServiceIdle /\ BatchIdle /\ RepoIdle
    /\ AnalyzeIdle /\ ReportIdle /\ ListIdle /\ ValidateInit /\ ConfigIdle /\ ToolsIdle /\ VerifyIdle

ValidateNext == ValidateToolArguments

SpecValidate == InitValidate /\ [][ValidateNext]_vars

InitConfig ==
    ScoresIdle /\ CacheInit /\ RetryIdle /\ ServiceIdle /\ BatchIdle /\ RepoIdle
    /\ AnalyzeIdle /\ ReportIdle /\ ListIdle /\ ValidateIdle /\ ConfigInit /\ ToolsIdle /\ VerifyIdle

ConfigNext ==
    \/ ValidateConfig
    \/ \E c \in {"getRepository(o/r)"} : ConfiguredRetry(c)
    \/ \E v \in {"v1"} : OperationReturns(v)
    \/ \E e \in HostFailures : OperationThrows(e)
    \/ SleepDone

SpecConfig == InitConfig /\ [][ConfigNext]_vars

InitTools ==
    ScoresIdle /\ CacheInit /\ RetryIdle /\ ToolsInit /\ BatchIdle /\ RepoIdle
    /\ AnalyzeIdle /\ ReportIdle /\ ListIdle /\ ValidateIdle /\ ConfigIdle /\ VerifyIdle

ToolsNext ==
    \/ \E name \in Handlers : \E args \in HandlerArguments(name) : ToolCall(name, args)
    \/ RateLimitAnswers
    \/ \E e \in HostFailures : RateLimitFails(e)
    \/ \E f \in HostFailures \cup {NoError}, n \in 0..MaxCallFails : ToolServiceCall(f, n)
    \/ HostFails("c1")
    \/ \E p \in Values \cup {"dir"} : HostAnswers("c1", p)
    \/ BackoffDone("c1")
    \/ ToolCallEnds

SpecTools == InitTools /\ [][ToolsNext]_vars

InitConcurrent ==
    ScoresIdle /\ CacheInit /\ RetryIdle /\ ConcurrentInit /\ BatchIdle /\ RepoIdle
    /\ AnalyzeIdle /\ ReportIdle /\ ListIdle /\ ValidateIdle /\ ConfigIdle
    /\ ToolsIdle /\ VerifyIdle

ConcurrentNext ==
    \/ \E c \in ConcurrentCallers, op \in {"getRepository", "getFileContent"},
          n \in 0..MaxCallFails : ServiceCall(c, op, PlainError("ECONNRESET", NoStatus), n)
    \/ \E c \in ConcurrentCallers : HostFails(c)
    \/ \E c \in ConcurrentCallers, p \in Values : HostAnswers(c, p)
    \/ \E c \in ConcurrentCallers : BackoffDone(c)
    \/ \E c \in ConcurrentCallers : CallEnds(c)

SpecConcurrent == InitConcurrent /\ [][ConcurrentNext]_vars

InitVerify ==
    ScoresIdle /\ CacheInit /\ RetryIdle /\ VerifyInit /\ BatchIdle /\ RepoIdle
    /\ AnalyzeIdle /\ ReportIdle /\ ListIdle /\ ValidateIdle /\ ConfigIdle
    /\ ToolsIdle

VerifyNext ==
    \/ \E f \in HostFailures \cup {NoError}, n \in 0..MaxCallFails : VerifyGetRepository(f, n)
    \/ HostFails("c1")
    \/ \E p \in Values : HostAnswers("c1", p)
    \/ BackoffDone("c1")
    \/ VerifyRepositoryEnds

SpecVerify == InitVerify /\ [][VerifyNext]_vars

(***************************************************************************)
(* Claims                                                                  *)
(***************************************************************************)

\* C1: for every issue list, calculateScores returns an architectureScore and a
\* cleanCodeScore that are both integers in the range 0..100.
C1_ScoresInRange ==
    scores # NoScores =>
        /\ scores.architecture \in 0..100
        /\ scores.cleanCode \in 0..100

\* a list holding a critical issue with 50 occurrences has been scored, and the
\* lower clamp produced 0
C1_Witness ==
    /\ scores # NoScores
    /\ \E i \in 1..Len(issues) :
          issues[i].severity = "critical" /\ issues[i].occurrences = ManyOcc
    /\ scores.architecture = 0
    /\ scores.cleanCode = 0

\* C2: after set(k, v, ttl) with no later set/delete/clear of k, get(k) returns v
\* while the TTL has not expired and a miss once it has, whatever sweeps ran.
C2_GetMatchesLastSet ==
    (lastGet # NoGet /\ lastSet[lastGet.key] # NoEntry) =>
        LET s == lastSet[lastGet.key] IN
        IF lastGet.at - s.timestamp > s.ttl
        THEN lastGet.result = "null"
        ELSE lastGet.result = s.data

\* a get that hit an entry written earlier, at the last tick of its TTL
C2_Witness ==
    /\ lastGet # NoGet
    /\ lastSet[lastGet.key] # NoEntry
    /\ lastSet[lastGet.key].ttl > 0
    /\ lastGet.at - lastSet[lastGet.key].timestamp = lastSet[lastGet.key].ttl
    /\ lastGet.result = lastSet[lastGet.key].data

\* the retry rule of the error taxonomy, read off the error's class, status and
\* message, not off its retryable flag
C4_RetryKind(error) ==
    \/ error.cls = "GitHubAPIError"
         /\ (error.statusCode >= 500 \/ error.statusCode = 429)
    \/ error.cls = "AnalysisError" /\ error.retryable
    \/ error.cls = "Error" /\ error.message \in NetworkMessages

\* C4: a failed attempt is followed by another attempt (while the attempt cap is
\* not reached) if and only if the error is a RemoteAPI error with status >= 500
\* or 429, an Analysis error marked retryable, or a network-level error.
C4_RetryDecision ==
    /\ rc.pc = "sleeping" =>
          C4_RetryKind(rc.lastError) /\ rc.attempt <= rc.maxRetries
    /\ rc.pc = "thrown" =>
          rc.attempt > rc.maxRetries \/ ~C4_RetryKind(rc.lastError)

\* a 429 of the remote API is being retried, and a Validation error whose text
\* names a network failure would not be
C4_Witness ==
    /\ rc.pc = "sleeping"
    /\ rc.lastError.cls = "GitHubAPIError"
    /\ rc.lastError.statusCode = 429
    /\ rc.attempt = 2

RECURSIVE C7_Pow2(_)
C7_Pow2(n) == IF n <= 0 THEN 1 ELSE 2 * C7_Pow2(n - 1)

\* C7: the delay slept after failed attempt n is min(base * 2^(n-1), 30000 ms):
\* it doubles with each attempt up to the cap, never decreases and never exceeds
\* 30 seconds.
C7_BackoffDelay ==
    /\ Len(rc.sleeps) = (IF rc.pc = "sleeping" THEN rc.attempt ELSE rc.attempt - 1)
          \/ rc.pc = "idle"
    /\ \A n \in 1..Len(rc.sleeps) :
          /\ rc.sleeps[n] <= 30000
          /\ rc.sleeps[n] = Min(rc.retryDelay * C7_Pow2(n - 1), 30000)
          /\ n > 1 => /\ rc.sleeps[n] >= rc.sleeps[n - 1]
                      /\ rc.sleeps[n] = 2 * rc.sleeps[n - 1] \/ rc.sleeps[n] = 30000

\* three sleeps of a base of 10 s: 10 s, 20 s, and the third capped at 30 s
C7_Witness ==
    /\ rc.pc = "sleeping"
    /\ rc.retryDelay = 10000
    /\ rc.sleeps = <<10000, 20000, 30000>>

\* C8 as stated: whenever handleWithRetry gives up after exhausting its retries,
\* the raised error carries the context string, whatever the underlying error.
C8_AlwaysWrapped ==
    (rc.pc = "thrown" /\ rc.attempt > rc.maxRetries) =>
        rc.thrown.context = rc.context

\* C8 amended: when handleWithRetry gives up, an underlying error that is no
\* MCPServerError is raised wrapped in an UNEXPECTED_ERROR naming the context and
\* the original message; an underlying MCPServerError is raised unchanged.
C8_WrappedUnlessTyped ==
    rc.pc = "thrown" =>
        IF IsMCPServerError(rc.lastError)
        THEN rc.thrown = rc.lastError
        ELSE /\ rc.thrown.cls = "MCPServerError"
             /\ rc.thrown.code = "UNEXPECTED_ERROR"
             /\ rc.thrown.context = rc.context
             /\ rc.thrown.message = rc.lastError.message
             /\ ~rc.thrown.retryable

\* the retries were exhausted on a network error, raised wrapped with the context
C8_Witness ==
    /\ rc.pc = "thrown"
    /\ rc.maxRetries > 0
    /\ rc.attempt > rc.maxRetries
    /\ rc.lastError.cls = "Error"
    /\ rc.thrown.context = rc.context

\* C3: with caching enabled and the client configured, a call first looks up its
\* cache key: a live entry is returned without a remote call; otherwise the
\* remote call is made and, on success, its result is stored under the key with
\* the configured TTL before returning, so that the entry is live for the next
\* identical call.
C3_CacheFirst ==
    [][\A c \in Callers :
        /\ (/\ call[c].rc.pc = "idle"
            /\ call'[c].rc.pc # "idle"
            /\ svc.configured
            /\ svc.cacheEnabled) =>
              LET key == call'[c].key
                  live == /\ cache[key] # NoEntry
                          /\ now - cache[key].timestamp <= cache[key].ttl
              IN  IF live
                  THEN /\ call'[c].rc.pc = "returned"
                       /\ call'[c].rc.value = cache[key].data
                       /\ call'[c].rc.calls = 0
                       /\ cache'[key] = cache[key]
                  ELSE /\ call'[c].rc.pc = "running"
                       /\ call'[c].rc.calls = 1
        /\ (/\ call[c].rc.pc = "running"
            /\ call'[c].rc.pc = "returned"
            /\ svc.cacheEnabled) =>
              /\ cache'[call[c].key] =
                    [data |-> call'[c].rc.value, timestamp |-> now,
                     ttl |-> svc.cacheTtl]
              /\ now' - cache'[call[c].key].timestamp <= cache'[call[c].key].ttl
      ]_vars

\* a call answered from an entry that an earlier call stored a tick before
C3_Witness ==
    \E c \in Callers :
        /\ call[c].hit
        /\ call[c].rc.pc = "returned"
        /\ call[c].rc.calls = 0
        /\ cache[call[c].key].timestamp < now
        /\ call[c].rc.value = cache[call[c].key].data

\* C5: a call (default retry count 3) whose host request fails twice with 503 and
\* then succeeds ends in success after exactly three host requests, having slept
\* base and 2 * base. (A third answer that is a directory where a file was asked
\* for is no success of the host request; it is left out of the scenario.)
C5_RetriesA503 ==
    \A c \in Callers :
        (/\ call[c].rc.pc \in {"returned", "thrown"}
         /\ call[c].planFailure = PlainError("other", 503)
         /\ call[c].planFails = 2
         /\ call[c].rc.maxRetries = 3) =>
            /\ call[c].rc.calls = 3
            /\ call[c].rc.sleeps = <<1000, 2000>>
            /\ \/ call[c].rc.pc = "returned"
               \/ call[c].rc.thrown.cls = "GitHubAPIError"

\* C6: a call whose host request fails with 404 is attempted exactly once, with no
\* sleep, and raises a GitHubAPIError (GITHUB_API_ERROR) of status 404 that is
\* not retryable.
C6_A404IsRemoteAPIError ==
    \A c \in Callers :
        (/\ call[c].rc.pc \in {"returned", "thrown"}
         /\ call[c].planFailure = PlainError("other", 404)
         /\ call[c].planFails >= 1) =>
            /\ call[c].rc.pc = "thrown"
            /\ call[c].rc.calls = 1
            /\ call[c].rc.sleeps = <<>>
            /\ call[c].rc.thrown.cls = "GitHubAPIError"
            /\ call[c].rc.thrown.code = "GITHUB_API_ERROR"
            /\ call[c].rc.thrown.statusCode = 404
            /\ ~call[c].rc.thrown.retryable

\* the number of the batch that position j of files belongs to
C9_BatchNo(j) == (j - 1) \div 5

\* C9: analyzeFiles processes the files in consecutive batches of at most 5; no
\* analysis of batch k+1 is started before every analysis of batch k has settled,
\* and a rejection in batch k does not keep the later batches from being started.
C9_BatchBarrier ==
    /\ Cardinality({j \in BatchFiles : af.promise[j] = "pending"}) <= 5
    /\ \A j, k \in 1..af.n :
          (C9_BatchNo(j) < C9_BatchNo(k) /\ af.promise[k] # "none") =>
              af.promise[j] \in {"fulfilled", "rejected"}
    /\ \A j, k \in 1..af.n :
          (C9_BatchNo(j) = C9_BatchNo(k) /\ af.promise[k] # "none") =>
              af.promise[j] # "none"
    /\ af.pc = "done" =>
          \A j \in 1..af.n : af.promise[j] \in {"fulfilled", "rejected"}

\* a file of the first batch was rejected and the second batch has been started
C9_Witness ==
    /\ af.n > 5
    /\ \E j \in 1..5 : af.promise[j] = "rejected"
    /\ af.promise[6] = "pending"

\* C10: during a repository analysis at most 5 per-file operations (content fetch
\* plus analysis) are in flight at any moment.
C10_AtMostFiveInFlight == Cardinality(InFlight(repo)) <= 5

\* C11: in a repository analysis the failure of one file (its content fetch or
\* its analysis) never aborts the run: every other selected file is still
\* processed, the failed file is left out of the aggregate, and the report has
\* analyzedFiles = selected files - failed files <= totalFiles, with
\* analyzedFiles < totalFiles whenever a file was left out.
C11_FailedFilesOmitted ==
    /\ repo.pc = "thrown" => repo.selected = 0
    /\ (repo.pc = "done" /\ repo.totalFiles > 0) =>
          LET failed == {j \in 1..repo.selected : repo.op[j] = "null"}
          IN  /\ \A j \in 1..repo.selected : repo.op[j] \in {"result", "null"}
              /\ \A j \in 1..repo.selected :
                    (\E k \in 1..Len(repo.files) : repo.files[k] = j)
                        <=> repo.op[j] = "result"
              /\ repo.analyzedFiles = repo.selected - Cardinality(failed)
              /\ repo.analyzedFiles <= repo.totalFiles
              /\ failed # {} => repo.analyzedFiles < repo.totalFiles

\* the report of a run in which a file failed and a file behind it was analyzed
C11_Witness ==
    /\ repo.pc = "done"
    /\ \E j, k \in 1..repo.selected :
          j < k /\ repo.op[j] = "null" /\ repo.op[k] = "result"

C12_InRequestOrder(s) == \A k, l \in 1..Len(s) : k < l => s[k] < s[l]

C13_Weight ==
    [critical |-> 25, high |-> 15, medium |-> 8, low |-> 3, good |-> -5, info |-> 0]

\* the sum over the issues of weight[severity] * occurrences
RECURSIVE C13_Penalty(_)
C13_Penalty(is) ==
    IF Len(is) = 0 THEN 0
    ELSE C13_Weight[Head(is).severity] * Head(is).occurrences + C13_Penalty(Tail(is))

\* C13 as stated: a score of calculateScores is 100 if and only if the issue list
\* is empty.
C13_HundredIffEmpty ==
    scores # NoScores =>
        /\ scores.architecture = 100 <=> issues = <<>>
        /\ scores.cleanCode = 100 <=> issues = <<>>

\* C13, amended: a score of calculateScores is 100 if and only if the weighted
\* penalty sum of the list is at most 0, as it is for the empty list and for
\* every list of only 'info' or only 'good' issues.
C13_HundredIffNoPenalty ==
    scores # NoScores =>
        /\ scores.architecture = 100 <=> C13_Penalty(issues) <= 0
        /\ scores.cleanCode = 100 <=> C13_Penalty(issues) <= 0
        /\ issues = <<>> => scores.architecture = 100 /\ scores.cleanCode = 100
        /\ (\A i \in 1..Len(issues) : issues[i].severity \in {"good", "info"}) =>
              scores.architecture = 100 /\ scores.cleanCode = 100

\* a list of good practices alone was scored 100
C13_Witness ==
    /\ issues # <<>>
    /\ \A i \in 1..Len(issues) : issues[i].severity = "good"
    /\ scores.architecture = 100
    /\ scores.cleanCode = 100

\* the scores of the list is are not above the scores computed
C14_NotHigher(is) ==
    /\ calculateScores(is).architecture <= scores.architecture
    /\ calculateScores(is).cleanCode <= scores.cleanCode

\* the scores of the list is are not below the scores computed
C14_NotLower(is) ==
    /\ calculateScores(is).architecture >= scores.architecture
    /\ calculateScores(is).cleanCode >= scores.cleanCode

\* C14 as stated: raising the occurrences of one issue, of any severity, or
\* replacing its severity by one of a larger weight, never raises a score.
C14_Monotone ==
    scores # NoScores =>
        \A i \in 1..Len(issues) :
            /\ \A o \in Occurrences :
                  o > issues[i].occurrences =>
                      C14_NotHigher([issues EXCEPT ![i].occurrences = o])
            /\ \A s \in Severities :
                  C13_Weight[s] > C13_Weight[issues[i].severity] =>
                      C14_NotHigher([issues EXCEPT ![i].severity = s])

\* C14, amended: replacing the severity of one issue by one of a larger weight
\* never raises a score, and neither does raising the occurrences of an issue
\* whose severity is not 'good'; raising the occurrences of a 'good' issue
\* (weight -5) never lowers a score.
C14_MonotoneInPenalty ==
    scores # NoScores =>
        \A i \in 1..Len(issues) :
            /\ \A o \in Occurrences :
                  o > issues[i].occurrences =>
                      IF issues[i].severity = "good"
                      THEN C14_NotLower([issues EXCEPT ![i].occurrences = o])
                      ELSE C14_NotHigher([issues EXCEPT ![i].occurrences = o])
            /\ \A s \in Severities :
                  C13_Weight[s] > C13_Weight[issues[i].severity] =>
                      C14_NotHigher([issues EXCEPT ![i].severity = s])

\* a scored list in which more occurrences of a critical issue lower the
\* architecture score and more occurrences of a good practice raise it
C14_Witness ==
    /\ scores # NoScores
    /\ \E i \in 1..Len(issues), o \in Occurrences :
          /\ issues[i].severity = "critical"
          /\ o > issues[i].occurrences
          /\ calculateScores([issues EXCEPT ![i].occurrences = o]).architecture
                 < scores.architecture
    /\ \E i \in 1..Len(issues), o \in Occurrences :
          /\ issues[i].severity = "good"
          /\ o > issues[i].occurrences
          /\ calculateScores([issues EXCEPT ![i].occurrences = o]).architecture
                 > scores.architecture

\* C15: every result of analyzeFile, on every path, has architectureScore =
\* round(clamp(100 - rawPenalty, 0, 100)) and cleanCodeScore =
\* round(clamp(100 - 0.8 * rawPenalty, 0, 100)) for the rawPenalty of its
\* issues, and both are 100 when it has no issues.
C15_ScoresFromPenalty ==
    fa.pc = "returned" =>
        LET rawPenalty == C13_Penalty(fa.result.issues)
        IN  /\ fa.result.architectureScore
                   = Max(0, Min(100, 100 - rawPenalty))
            /\ fa.result.cleanCodeScore
                   = (2 * Max(0, Min(500, 500 - 4 * rawPenalty)) + 5) \div 10
            /\ fa.result.issues = <<>> =>
                  fa.result.architectureScore = 100 /\ fa.result.cleanCodeScore = 100

\* C16: every result of analyzeFile, on every path, has summary.total equal to
\* issues.length, and every issue in it has occurrences >= 1.
C16_TotalAndOccurrences ==
    fa.pc = "returned" =>
        /\ fa.result.summary.total = Len(fa.result.issues)
        /\ \A i \in 1..Len(fa.result.issues) : fa.result.issues[i].occurrences >= 1

\* a result with two issues or more for a content that one enabled rule does
\* not match
C16_Witness ==
    /\ fa.pc = "returned"
    /\ ~fa.oversize
    /\ fa.options.enabledCategories = Categories
    /\ \E k \in 1..Len(Patterns) : fa.found[k] = 0
    /\ Len(fa.result.issues) >= 2

\* C17: if evaluating one rule of the corpus raises an error, the analysis of the
\* file still completes and the issues of the other rules, before and after the
\* failing one, are what they would be had the failing rule not matched.
C17_RuleFailureOmitsOneRule ==
    (fa.pc = "returned" /\ ~fa.oversize) =>
        fa.result.issues =
            analyzePatterns([k \in 1..Len(Patterns) |->
                                IF fa.found[k] = Throws THEN 0 ELSE fa.found[k]],
                            fa.cleanCode, fa.options)

\* the second rule threw, and the result holds the issues of the first and of
\* the last rule
C17_Witness ==
    /\ fa.pc = "returned"
    /\ ~fa.oversize
    /\ fa.found[2] = Throws
    /\ \E i, j \in 1..Len(fa.result.issues) :
          /\ fa.result.issues[i].issue = Patterns[1].issue
          /\ fa.result.issues[j].issue = Patterns[4].issue

\* C18: a result of analyzeFile whose issues hold a critical issue has a
\* "Layered Architecture" suggestion.
C18_CriticalSuggestsLayers ==
    (fa.pc = "returned" /\ \E i \in 1..Len(fa.result.issues) :
                              fa.result.issues[i].severity = "critical") =>
        \E k \in 1..Len(fa.result.suggestions) :
            fa.result.suggestions[k] = "Layered Architecture"

\* C19: the scores of the report are the rounded means of the scores of the N
\* analyzed files; they are 0 when files were found and none could be analyzed,
\* and 100 only when no file was found.
C19_MeanOrZero ==
    rep.pc = "done" =>
        LET N == Len(rep.results)
            overallScore == rep.report.overallScore
        IN  IF rep.totalFiles = 0
            THEN overallScore.architecture = 100 /\ overallScore.cleanCode = 100
            ELSE IF N = 0
            THEN overallScore.architecture = 0 /\ overallScore.cleanCode = 0
            ELSE /\ overallScore.architecture
                        = (2 * sumOf(rep.results, "architectureScore") + N) \div (2 * N)
                 /\ overallScore.cleanCode
                        = (2 * sumOf(rep.results, "cleanCodeScore") + N) \div (2 * N)

\* the positions <<file, issue>> of the issues of the analyzed files
C20_Positions ==
    UNION {{<<i, j>> : j \in 1..Len(rep.results[i].issues)} : i \in 1..Len(rep.results)}

C20_IssueAt(p) == rep.results[p[1]].issues[p[2]]

\* the distinct pairs <<issue label, severity>> found in the analyzed files
C20_Pairs == {<<C20_IssueAt(p).issue, C20_IssueAt(p).severity>> : p \in C20_Positions}

RECURSIVE C20_Sum(_)
C20_Sum(ps) ==
    IF ps = {} THEN 0
    ELSE LET p == CHOOSE q \in ps : TRUE
         IN  C20_IssueAt(p).occurrences + C20_Sum(ps \ {p})

\* the occurrences of the pair, summed over the files
C20_Count(pair) ==
    C20_Sum({p \in C20_Positions :
                <<C20_IssueAt(p).issue, C20_IssueAt(p).severity>> = pair})

\* critical > high > medium > low > good/info
C20_Rank == [critical |-> 4, high |-> 3, medium |-> 2, low |-> 1, good |-> 0, info |-> 0]

\* the pair a does not belong behind the pair b
C20_NotBehind(a, b) ==
    /\ C20_Rank[a[2]] >= C20_Rank[b[2]]
    /\ a[2] = b[2] => C20_Count(a) >= C20_Count(b)

\* C20: topIssues has one entry per distinct (issue label, severity) pair of the
\* analyzed files, its count the sum of the pair's occurrences over the files;
\* the entries are ordered by severity rank descending and, within a severity,
\* by count descending; the list is the first 15 entries of that order.
C20_TopIssues ==
    (rep.pc = "done" /\ rep.totalFiles > 0) =>
        LET top == rep.report.topIssues
            pairOf(k) == <<top[k].issue, top[k].severity>>
            listed == {pairOf(k) : k \in 1..Len(top)}
        IN  /\ Len(top) = Min(15, Cardinality(C20_Pairs))
            /\ listed \subseteq C20_Pairs
            /\ \A k, l \in 1..Len(top) : k # l => pairOf(k) # pairOf(l)
            /\ \A k \in 1..Len(top) : top[k].count = C20_Count(pairOf(k))
            /\ \A k, l \in 1..Len(top) : k < l => C20_NotBehind(pairOf(k), pairOf(l))
            /\ \A a \in listed, b \in C20_Pairs \ listed : C20_NotBehind(a, b)

\* a report of files with more than 15 distinct pairs, one of them found in two
\* files
C20_Witness ==
    /\ rep.pc = "done"
    /\ Cardinality(C20_Pairs) > 15
    /\ Len(rep.report.topIssues) = 15
    /\ \E p, q \in C20_Positions :
          /\ p[1] # q[1]
          /\ C20_IssueAt(p).issue = C20_IssueAt(q).issue
          /\ C20_IssueAt(p).severity = C20_IssueAt(q).severity
          /\ \E k \in 1..15 :
                /\ rep.report.topIssues[k].issue = C20_IssueAt(p).issue
                /\ rep.report.topIssues[k].severity = C20_IssueAt(p).severity

\* C21: listReactFiles returns exactly the files of the scanned tree that lie
\* outside every directory named node_modules, .next, dist, build or out, that
\* have one of the extensions .js, .jsx, .ts, .tsx, and whose name does not
\* mark them as a test (.test. or .spec. in the name).
RECURSIVE C21_Under(_, _)
C21_Under(n, base) ==
    \/ Tree[n].parent = base
    \/ Tree[n].parent # Root /\ C21_Under(Tree[n].parent, base)

C21_InIgnoredDirectory(n) ==
    \E d \in Directories \ {Root} : C21_Under(n, d) /\ Tree[d].name \in ignorePaths

C21_IsTest(n) ==
    \E i \in 1..(Len(Tree[n].name) - 1) : Tree[n].name[i] \in {".test", ".spec"}

C21_Expected(base) ==
    {n \in Entries :
        /\ Tree[n].type = "file"
        /\ C21_Under(n, base)
        /\ ~C21_InIgnoredDirectory(n)
        /\ hasReactExtension(n)
        /\ ~C21_IsTest(n)}

C21_ExactlyReactFiles ==
    (lr.pc = "returned" /\ lr.failed = {}) =>
        {lr.allFiles[i] : i \in 1..Len(lr.allFiles)} = C21_Expected(lr.base)

\* C22: a directory of listReactFiles whose listing fails is skipped: the call
\* does not raise, every other directory reached is still scanned, and every
\* accepted file of a directory that could be listed is returned.
C22_Attempted == lr.listed \cup lr.failed

C22_FailedDirectorySkipped ==
    /\ lr.pc # "thrown"
    /\ lr.pc = "returned" =>
        /\ lr.base \in C22_Attempted
        /\ \A d \in lr.listed : \A e \in Entries :
              (Tree[e].parent = d /\ ~isIgnored(e)) =>
                  /\ Tree[e].type = "dir" => e \in C22_Attempted
                  /\ (Tree[e].type = "file" /\ hasReactExtension(e)) =>
                        \E i \in 1..Len(lr.allFiles) : lr.allFiles[i] = e

C22_Witness ==
    /\ lr.pc = "returned"
    /\ \E d \in lr.failed \ {Root}, s \in lr.listed \ {Root} :
          /\ Tree[d].parent = Tree[s].parent
          /\ d < s
          /\ \E i \in 1..Len(lr.allFiles) : Tree[lr.allFiles[i]].parent = s

\* C23: validateToolArguments reports isValid = true with no errors exactly
\* when the tool is known, every required parameter is present (not
\* undefined, null or '') and every present parameter satisfies its schema
\* (type, minimum and maximum length, pattern, allowed values); otherwise
\* isValid is false and there is at least one error. Parameters the schema
\* does not have only add warnings.
C23_Present(value) == value # Undefined /\ value # Null /\ value # Str("")

C23_Satisfies(value, schema) ==
    /\ value.kind = schema.type
    /\ "minLength" \in DOMAIN schema => Len(value.text) >= schema.minLength
    /\ "maxLength" \in DOMAIN schema => Len(value.text) <= schema.maxLength
    /\ "pattern" \in DOMAIN schema => test(schema.pattern, value.text)
    /\ "allowedValues" \in DOMAIN schema => value.text \in schema.allowedValues

C23_ArgumentsFit(toolName, args) ==
    /\ toolName \in DOMAIN TOOL_SCHEMAS
    /\ \A i \in 1..Len(TOOL_SCHEMAS[toolName]) :
          LET p == TOOL_SCHEMAS[toolName][i]
              value == argOf(args, p.name)
          IN  /\ p.schema.required => C23_Present(value)
              /\ C23_Present(value) => C23_Satisfies(value, p.schema)

C23_ValidIffArgumentsFit ==
    vt.pc = "returned" =>
        IF C23_ArgumentsFit(vt.toolName, vt.args)
        THEN vt.result.isValid /\ Len(vt.result.errors) = 0
        ELSE ~vt.result.isValid /\ Len(vt.result.errors) > 0

\* C24: a negative retry count or a negative cache TTL is rejected before any
\* work is done: validateConfig reports such a configuration invalid, and
\* handleWithRetry, as the remote client calls it, given a negative retry
\* count rejects without ever invoking the operation or sleeping.
C24_NegativeRejected ==
    /\ (cf.pc = "validated"
        /\ (cf.config.rateLimitRetryCount < 0 \/ cf.config.cacheTtl < 0)) =>
            ~cf.result.isValid /\ cf.result.errors # {}
    /\ (rc.pc # "idle" /\ rc.maxRetries < 0) =>
            /\ rc.pc = "thrown"
            /\ rc.thrown # NoError
            /\ rc.calls = 0
            /\ rc.sleeps = <<>>

C24_Witness ==
    /\ cf.pc = "validated"
    /\ cf.config.rateLimitRetryCount < 0
    /\ cf.config.cacheTtl >= 0
    /\ ~cf.result.isValid
    /\ rc.pc = "thrown"
    /\ rc.maxRetries < 0

\* C25: for maxRetries >= 0, handleWithRetry invokes the operation at least
\* once and at most maxRetries + 1 times; it stops at the first success or at
\* the first error that is not retryable; it makes exactly maxRetries + 1
\* invocations when every attempt fails with a retryable error; and it sleeps
\* only between two consecutive attempts, never after the last one.
C25_AttemptBounds ==
    (rc.pc # "idle" /\ rc.maxRetries >= 0) =>
        /\ rc.calls >= 1
        /\ rc.calls <= rc.maxRetries + 1
        /\ rc.calls = rc.attempt
        /\ rc.pc = "thrown" =>
              /\ ~isRetryable(rc.lastError) \/ rc.calls = rc.maxRetries + 1
              /\ isRetryable(rc.lastError) => rc.calls = rc.maxRetries + 1
        /\ rc.pc = "sleeping" =>
              /\ isRetryable(rc.lastError)
              /\ Len(rc.sleeps) = rc.calls
              /\ rc.calls <= rc.maxRetries
        /\ rc.pc # "sleeping" => Len(rc.sleeps) = rc.calls - 1

C25_Witness ==
    /\ rc.pc = "thrown"
    /\ rc.maxRetries >= 2
    /\ isRetryable(rc.lastError)
    /\ rc.calls = rc.maxRetries + 1
    /\ Len(rc.sleeps) = rc.maxRetries

\* C26: every tool handler validates its arguments first: with invalid
\* arguments it raises a Validation error, having made no remote call, no
\* GitHubService call (so no cache read or write) and no change to the
\* configured client.
C26_ValidatesFirst ==
    (th.pc # "idle" /\ ~validateToolArguments(th.name, th.args).isValid) =>
        /\ th.pc = "thrown"
        /\ th.error.cls = "ValidationError"
        /\ th.remote = 0
        /\ call["c1"] = IdleCall
        /\ cache = [k \in Keys |-> NoEntry]
        /\ svc.configured = th.before

C26_Witness ==
    /\ th.pc = "thrown"
    /\ th.error.cls = "ValidationError"
    /\ th.name = "configurar_github"
    /\ th.args["token"] = Str("facebook")
    /\ ~th.before

\* C27: when configurarGitHub fails while verifying the new token (the
\* rate-limit query raises), the client's configuration is what it was before
\* the call.
C27_FailedVerificationKeepsClient ==
    (th.name = "configurar_github" /\ th.pc = "thrown" /\ th.remote = 1) =>
        svc.configured = th.before

\* C28: a getRepository, listFiles or getFileContent call that fails stores
\* nothing in the cache: an entry is written only by the step in which a call
\* succeeds, and once a call has failed its key has no live entry, so the
\* same call made again goes to the host again.
C28_Stores(k) == cache'[k] # NoEntry /\ cache'[k] # cache[k]

C28_FailureStoresNothing ==
    [][/\ \A k \in Keys : C28_Stores(k) =>
              \E c \in Callers :
                  /\ call[c].key = k
                  /\ call[c].rc.pc = "running"
                  /\ call'[c].rc.pc = "returned"
       /\ \A c \in Callers :
              (call'[c].rc.pc = "thrown" /\ call'[c].served > 0) =>
                  /\ \A k \in Keys : ~C28_Stores(k)
                  /\ (svc'.cacheEnabled =>
                        CacheGetResult(cache', call'[c].key, now') = "null")]_vars

C28_Witness ==
    \E c \in Callers :
        /\ call[c].rc.pc = "thrown"
        /\ call[c].served > 1
        /\ svc.cacheEnabled
        /\ cache[call[c].key] = NoEntry

\* C29: for one cache key, while the cache holds no live entry for it, at most
\* one remote call for that key is in flight: callers that ask for the same
\* resource at the same time share one remote call.
C29_InFlight(k) ==
    {c \in DOMAIN call : call[c].key = k /\ call[c].rc.pc = "running"}

C29_OneRemoteCallPerKey ==
    \A k \in Keys :
        CacheGetResult(cache, k, now) = "null" => Cardinality(C29_InFlight(k)) <= 1

\* C30: verifyRepository returns true when getRepository succeeds, false
\* when the host answers 404, and raises every other failure again.
C30_TrueFalseOrRaise ==
    ver.pc \in {"returned", "thrown"} =>
        IF ver.failure = NoError /\ ver.error = NoError
        THEN ver.pc = "returned" /\ ver.result = "true"
        ELSE IF ver.failure.statusCode = 404
             THEN ver.pc = "returned" /\ ver.result = "false"
             ELSE ver.pc = "thrown" /\ ver.error # NoError

====
